---- MODULE Spec2Model ----
(***************************************************************************)
(* Verification model of the scoring / scheduling engines of               *)
(* beidou-edu-server:                                                      *)
(*   - SM2Engine         (src/spaced_repetition.py)                        *)
(*   - AdaptiveLearner   (src/adaptive_learner.py)                         *)
(*   - PvP rating, rank tiers, matchmaking and seasons                     *)
(*                       (src/pvp_system.py, src/pvp_api.py)               *)
(*                                                                         *)
(* Python floats are IEEE-754 binary64 and the engines compare, truncate   *)
(* and clamp them, so the last bit of a sum decides an interval            *)
(* (int(interval * easiness)) or the side of a threshold (ability < 0.5).  *)
(* The model therefore computes with binary64 values exactly.              *)
(***************************************************************************)
EXTENDS Integers, Sequences, FiniteSets, TLC

(***************************************************************************)
(* Bounds of the model.                                                    *)
(***************************************************************************)
\* process_review calls on the card
MaxReviews == 4

\* record_answer calls on the profile
MaxAnswers == 2

\* submit_battle_result calls
MaxBattles == 1

\* pvp_rank_history rows written by direct check_rank_change calls
MaxRankChanges == 1

\* find_match calls that return a match
MaxMatches == 1

\* the last second of the clock
MaxClock == 70

\* start_season calls
MaxSeasons == 2

\* claim_rewards calls that return True, for one player and season
MaxClaims == 2

\* soft_reset_ratings calls
MaxResets == 1
(***************************************************************************)
(* binary64 arithmetic                                                     *)
(*                                                                         *)
(* A natural number is a sequence of 15-bit limbs, least significant       *)
(* first, without a leading zero limb.  A float is [neg, m, e] of value    *)
(* (-1)^neg * m * 2^e whose mantissa m has exactly 53 bits, or is empty    *)
(* for zero.  Every operation rounds to nearest, ties to even.  As in       *)
(* Python, an operand is evaluated once, before the operation: the         *)
(* operations take their operands as the elements of singleton sets.       *)
(***************************************************************************)
LimbBase == 2 ^ 15

Pow2(n) == 2 ^ n

Limb(a, i) == IF i <= Len(a) THEN a[i] ELSE 0

RECURSIVE BigTrim(_)
BigTrim(a) ==
    IF a # << >> /\ a[Len(a)] = 0 THEN BigTrim(SubSeq(a, 1, Len(a) - 1)) ELSE a

RECURSIVE BigAddFrom(_, _, _, _)
BigAddFrom(a, b, i, c) ==
    IF i > Len(a) /\ i > Len(b) THEN (IF c = 0 THEN << >> ELSE <<c>>)
    ELSE LET s == Limb(a, i) + Limb(b, i) + c
         IN  <<s % LimbBase>> \o BigAddFrom(a, b, i + 1, s \div LimbBase)

BigAdd(a, b) == BigAddFrom(a, b, 1, 0)

RECURSIVE BigSubFrom(_, _, _, _)
BigSubFrom(a, b, i, w) ==
    IF i > Len(a) THEN << >>
    ELSE LET d == Limb(a, i) - Limb(b, i) - w
         IN  <<d % LimbBase>> \o BigSubFrom(a, b, i + 1, IF d < 0 THEN 1 ELSE 0)

\* a - b for a >= b
BigSub(a, b) == BigTrim(BigSubFrom(a, b, 1, 0))

RECURSIVE BigMulLimbFrom(_, _, _, _)
BigMulLimbFrom(a, n, i, c) ==
    IF i > Len(a) THEN (IF c = 0 THEN << >> ELSE <<c>>)
    ELSE LET p == a[i] * n + c
         IN  <<p % LimbBase>> \o BigMulLimbFrom(a, n, i + 1, p \div LimbBase)

\* a * n for a limb n
BigMulLimb(a, n) == IF n = 0 THEN << >> ELSE BigMulLimbFrom(a, n, 1, 0)

RECURSIVE BigMulFrom(_, _, _)
BigMulFrom(a, b, j) ==
    IF j > Len(b) THEN << >>
    ELSE BigAdd(BigMulLimb(a, b[j]), <<0>> \o BigMulFrom(a, b, j + 1))

BigMul(a, b) == BigTrim(BigMulFrom(a, b, 1))

RECURSIVE BigDivFrom(_, _, _, _)
BigDivFrom(a, n, i, r) ==
    IF i = 0 THEN [q |-> << >>, r |-> r]
    ELSE LET cur  == r * LimbBase + a[i]
             rest == BigDivFrom(a, n, i - 1, cur % n)
         IN  [q |-> rest.q \o <<cur \div n>>, r |-> rest.r]

\* quotient and remainder of a by n, 0 < n <= LimbBase
BigDivSmall(a, n) ==
    LET d == BigDivFrom(a, n, Len(a), 0) IN [q |-> BigTrim(d.q), r |-> d.r]

BigLess(a, b) ==
    \/ Len(a) < Len(b)
    \/ /\ Len(a) = Len(b)
       /\ \E i \in 1..Len(a) : a[i] < b[i] /\ \A j \in (i + 1)..Len(a) : a[j] = b[j]

\* a * 2^n
BigShl(a, n) ==
    IF a = << >> THEN << >>
    ELSE [i \in 1..(n \div 15) |-> 0] \o BigMulLimbFrom(a, Pow2(n % 15), 1, 0)

\* a \div 2^n
BigShr(a, n) ==
    IF n \div 15 >= Len(a) THEN << >>
    ELSE BigDivSmall(SubSeq(a, n \div 15 + 1, Len(a)), Pow2(n % 15)).q

\* bit i of a, bit 0 the least significant
BigBit(a, i) == (Limb(a, i \div 15 + 1) \div Pow2(i % 15)) % 2

\* the n low bits of a are zero
BigLowZero(a, n) ==
    /\ \A j \in 1..(n \div 15) : Limb(a, j) = 0
    /\ Limb(a, n \div 15 + 1) % Pow2(n % 15) = 0

BitLen(a) ==
    IF a = << >> THEN 0
    ELSE 15 * (Len(a) - 1) + (CHOOSE n \in 1..15 : Pow2(n - 1) <= a[Len(a)] /\ a[Len(a)] < Pow2(n))

RECURSIVE BigFromNat(_)
BigFromNat(n) == IF n = 0 THEN << >> ELSE <<n % LimbBase>> \o BigFromNat(n \div LimbBase)

RECURSIVE BigToNat(_)
BigToNat(a) == IF a = << >> THEN 0 ELSE a[1] + LimbBase * BigToNat(Tail(a))

FZero == [neg |-> FALSE, m |-> << >>, e |-> 0]

\* the float nearest to m * 2^e (plus less than one unit of m when sticky)
Nearest(neg, m, e, sticky) ==
    LET len == BitLen(m) IN
    IF m = << >> THEN FZero
    ELSE IF len <= 53 THEN [neg |-> neg, m |-> BigShl(m, 53 - len), e |-> e - (53 - len)]
    ELSE LET s  == len - 53
             q  == BigShr(m, s)
             up == /\ BigBit(m, s - 1) = 1
                   /\ (sticky \/ ~BigLowZero(m, s - 1) \/ BigBit(q, 0) = 1)
             r  == IF up THEN BigAdd(q, <<1>>) ELSE q
         IN  IF BitLen(r) = 54 THEN [neg |-> neg, m |-> BigShr(r, 1), e |-> e + s + 1]
             ELSE [neg |-> neg, m |-> r, e |-> e + s]

MakeFloat(neg, m, e, sticky) ==
    CHOOSE r \in {Nearest(neg, a, e, sticky) : a \in {m}} : TRUE

\* float(n) for an integer n
FromInt(n) ==
    IF n < 0 THEN MakeFloat(TRUE, BigFromNat(-n), 0, FALSE)
    ELSE MakeFloat(FALSE, BigFromNat(n), 0, FALSE)

FNeg(x) == IF x = FZero THEN FZero ELSE [x EXCEPT !.neg = ~x.neg]

\* |x| < |y|
MagLess(x, y) ==
    IF y = FZero THEN FALSE
    ELSE IF x = FZero THEN TRUE
    ELSE x.e < y.e \/ (x.e = y.e /\ BigLess(x.m, y.m))

Less(x, y) ==
    IF x.neg /\ ~y.neg THEN TRUE
    ELSE IF ~x.neg /\ y.neg THEN FALSE
    ELSE IF x.neg THEN MagLess(y, x)
    ELSE MagLess(x, y)

\* x < y
FLess(x, y) == \E a \in {x}, b \in {y} : Less(a, b)

Sum(x, y) ==
    IF x = FZero THEN y
    ELSE IF y = FZero THEN x
    ELSE IF x.e - y.e > 64 THEN x
    ELSE IF y.e - x.e > 64 THEN y
    ELSE LET lo == IF x.e < y.e THEN x.e ELSE y.e
             a  == BigShl(x.m, x.e - lo)
             b  == BigShl(y.m, y.e - lo)
         IN  IF x.neg = y.neg THEN MakeFloat(x.neg, BigAdd(a, b), lo, FALSE)
             ELSE IF BigLess(a, b) THEN MakeFloat(y.neg, BigSub(b, a), lo, FALSE)
             ELSE MakeFloat(x.neg, BigSub(a, b), lo, FALSE)

\* x + y
FAdd(x, y) == CHOOSE r \in {Sum(a, b) : a \in {x}, b \in {y}} : TRUE

\* x - y
FSub(x, y) == FAdd(x, FNeg(y))

Product(x, y) ==
    IF x = FZero \/ y = FZero THEN FZero
    ELSE MakeFloat(x.neg # y.neg, BigMul(x.m, y.m), x.e + y.e, FALSE)

\* x * y
FMul(x, y) == CHOOSE r \in {Product(a, b) : a \in {x}, b \in {y}} : TRUE

Quotient(x, n) ==
    IF x = FZero THEN FZero
    ELSE LET d == BigDivSmall(BigShl(x.m, 30), n)
         IN  MakeFloat(x.neg, d.q, x.e - 30, d.r # 0)

\* x / n for an integer 0 < n <= LimbBase
FDivInt(x, n) == CHOOSE r \in {Quotient(a, n) : a \in {x}} : TRUE

\* the literal k/n, e.g. Dec(13, 10) for 1.3
Dec(k, n) == FDivInt(FromInt(k), n)

\* min(x, y) and max(x, y) as Python evaluates them: the first unless the second is smaller / larger
FMin(x, y) == CHOOSE r \in {IF Less(b, a) THEN b ELSE a : a \in {x}, b \in {y}} : TRUE

FMax(x, y) == CHOOSE r \in {IF Less(a, b) THEN b ELSE a : a \in {x}, b \in {y}} : TRUE

Truncated(x) ==
    IF x = FZero THEN 0
    ELSE LET n == IF x.e >= 0 THEN BigToNat(BigShl(x.m, x.e))
                  ELSE BigToNat(BigShr(x.m, -x.e))
         IN  IF x.neg THEN -n ELSE n

\* int(x): truncation toward zero
FTrunc(x) == CHOOSE r \in {Truncated(a) : a \in {x}} : TRUE

Rounded(x) ==
    IF x = FZero THEN 0
    ELSE IF x.e >= 0 THEN Truncated(x)
    ELSE LET t    == BigToNat(BigShr(x.m, -x.e))
             half == BigBit(x.m, -x.e - 1) = 1
             rest == ~BigLowZero(x.m, -x.e - 1)
             n    == IF half /\ (rest \/ t % 2 = 1) THEN t + 1 ELSE t
         IN  IF x.neg THEN -n ELSE n

\* round(x): nearest integer, ties to even
FRound(x) == CHOOSE r \in {Rounded(a) : a \in {x}} : TRUE

\* the float literals and integer operands of the two engines
F_neg_1 == FromInt(-1)

F_neg_0_3 == Dec(-3, 10)

F_0_02 == Dec(2, 100)

F_0_08 == Dec(8, 100)

F_0_1 == Dec(1, 10)

F_0_15 == Dec(15, 100)

F_0_3 == Dec(3, 10)

F_0_5 == Dec(5, 10)

F_0_8 == Dec(8, 10)

F_0_9 == Dec(9, 10)

F_1 == FromInt(1)

F_1_3 == Dec(13, 10)

F_2_5 == Dec(25, 10)

F_4 == FromInt(4)

F_5 == FromInt(5)

F_10000 == FromInt(10000)

(***************************************************************************)
(* SM2Engine (src/spaced_repetition.py)                                    *)
(***************************************************************************)
VARIABLES
    card,            \* the ReviewCard object the caller holds, or NoCard
    review_cards,    \* table review_cards: its row for CardId, or NoCard
    review_history,  \* table review_history: the rows in insertion order
    now              \* datetime.now(), a logical clock

sm2vars == <<card, review_cards, review_history, now>>

MIN_EASINESS == F_1_3

\* the two initial intervals in the wrong order
INITIAL_INTERVALS_Swapped == <<6, 1>>

INITIAL_INTERVALS == <<1, 6>>

CardId == "u1:q1"

NoCard == [card_id |-> "NULL"]

NoDate == [at |-> -1, days |-> 0]

\* the grades of ReviewQuality
Quality == 0..5

\* grades outside ReviewQuality that a caller may still pass
BadQuality == {-1, 6}

\* ReviewCard(card_id, ..., next_review=datetime.now()) with the dataclass defaults
ReviewCard ==
    [card_id |-> CardId, easiness |-> F_2_5, interval |-> 1, repetitions |-> 0,
     next_review |-> [at |-> now, days |-> 0], last_review |-> NoDate,
     total_reviews |-> 0, correct_count |-> 0]

\* 0.1 - (5 - quality) * (0.08 + (5 - quality) * 0.02)
EasinessDelta(quality) ==
    FSub(F_0_1,
         FMul(FromInt(5 - quality),
              FAdd(F_0_08, FMul(FromInt(5 - quality), F_0_02))))

\* round(card.interval * card.easiness) instead of int(.)
NextInterval_Rounded(interval, easiness) == FRound(FMul(FromInt(interval), easiness))

\* int(card.interval * card.easiness)
NextInterval(interval, easiness) == FTrunc(FMul(FromInt(interval), easiness))

\* the easiness update without the max(MIN_EASINESS, .) of line 192
NextEasiness_NoClamp(easiness, quality) == FAdd(easiness, EasinessDelta(quality))

\* card.easiness + delta, then max(MIN_EASINESS, .)
NextEasiness(easiness, quality) == FMax(MIN_EASINESS, FAdd(easiness, EasinessDelta(quality)))

\* a failing grade that does not reset the repetitions
Sm2Core_NoReset(c, quality) ==
    IF quality < 3
    THEN [repetitions |-> c.repetitions, interval |-> 1]
    ELSE LET n == c.repetitions + 1 IN
         [repetitions |-> n,
          interval    |-> IF n = 1 THEN INITIAL_INTERVALS[1]
                          ELSE IF n = 2 THEN INITIAL_INTERVALS[2]
                          ELSE NextInterval(c.interval, c.easiness)]

\* a failing grade that resets the interval to 0 days
Sm2Core_ZeroInterval(c, quality) ==
    IF quality < 3
    THEN [repetitions |-> 0, interval |-> 0]
    ELSE LET n == c.repetitions + 1 IN
         [repetitions |-> n,
          interval    |-> IF n = 1 THEN INITIAL_INTERVALS[1]
                          ELSE IF n = 2 THEN INITIAL_INTERVALS[2]
                          ELSE NextInterval(c.interval, c.easiness)]

\* the SM-2 core of process_review: the new interval and repetitions
Sm2Core(c, quality) ==
    IF quality < 3
    THEN [repetitions |-> 0, interval |-> 1]
    ELSE LET n == c.repetitions + 1 IN
         [repetitions |-> n,
          interval    |-> IF n = 1 THEN INITIAL_INTERVALS[1]
                          ELSE IF n = 2 THEN INITIAL_INTERVALS[2]
                          ELSE NextInterval(c.interval, c.easiness)]

get_or_create_card ==
    /\ IF review_cards # NoCard
       THEN /\ card' = review_cards
            /\ UNCHANGED <<review_cards, now>>
       ELSE /\ card' = ReviewCard
            /\ review_cards' = ReviewCard
            /\ now' = now + 1
    /\ UNCHANGED review_history

process_review(quality) ==
    /\ card # NoCard
    /\ card.total_reviews < MaxReviews
    /\ \E core \in {Sm2Core(card, quality)} :
       \E new \in {[card EXCEPT
                      !.total_reviews = @ + 1,
                      !.correct_count = IF quality >= 3 THEN @ + 1 ELSE @,
                      !.repetitions   = core.repetitions,
                      !.interval      = core.interval,
                      !.easiness      = NextEasiness(card.easiness, quality),
                      !.last_review   = [at |-> now, days |-> 0],
                      !.next_review   = [at |-> now, days |-> core.interval]]} :
           /\ card' = new
           \* _save_card: UPDATE review_cards ... WHERE card_id = ?
           /\ review_cards' = IF review_cards # NoCard THEN new ELSE review_cards
           \* _log_review
           /\ review_history' = Append(review_history,
                  [quality |-> quality,
                   interval_before |-> card.interval, interval_after |-> new.interval,
                   easiness_before |-> card.easiness, easiness_after |-> new.easiness])
    /\ now' = now + 1

(***************************************************************************)
(* AdaptiveLearner (src/adaptive_learner.py)                               *)
(***************************************************************************)
VARIABLES
    profiles,                   \* self.profiles[key]: the cached LearnerProfile, or NoProfile
    adaptive_learner_profiles,  \* table adaptive_learner_profiles: the row of the key, or NoProfile
    adaptive_learning_log,      \* table adaptive_learning_log: the rows inserted, in order
    target                      \* the last result of _calc_target_difficulty, or NoTarget

learnervars == <<profiles, adaptive_learner_profiles, adaptive_learning_log, target>>

NoProfile == [user_id |-> "NULL"]

NoTarget == [strategy |-> "NULL"]

SelectionStrategy == {"balanced", "challenge", "review", "weak_focus"}

\* CONFIG
ability_update_rate == F_0_1

momentum_decay == F_0_9

recent_window == 20

weak_threshold == F_0_5

strong_threshold == F_0_8

\* LearnerProfile(user_id, cert_id) with the dataclass defaults
LearnerProfile ==
    [ability_level |-> F_0_5, stability |-> F_0_5, momentum |-> FZero,
     domain_abilities |-> << >>, recent_accuracy |-> << >>,
     weak_areas |-> {}, strong_areas |-> {}]

\* the cached profile, else the stored row, else a new profile
get_profile ==
    IF profiles # NoProfile THEN profiles
    ELSE IF adaptive_learner_profiles # NoProfile THEN adaptive_learner_profiles
    ELSE LearnerProfile

\* max(lo, min(hi, x)) left out
Clamp_None(lo, hi, x) == x

\* max(lo, min(hi, x))
Clamp(lo, hi, x) == FMax(lo, FMin(hi, x))

\* s[:n], the oldest n entries
LastN_Oldest(s, n) == IF Len(s) > n THEN SubSeq(s, 1, n) ELSE s

\* s[-n:]
LastN(s, n) == IF Len(s) > n THEN SubSeq(s, Len(s) - n + 1, Len(s)) ELSE s

\* sum(values), added from the left
RECURSIVE FSum(_, _, _)
FSum(values, i, acc) ==
    IF i > Len(values) THEN acc
    ELSE CHOOSE total \in {FSum(values, i + 1, s) : s \in {FAdd(acc, values[i])}} : TRUE

\* 10000 * ln(p / (1 - p)) rounded up, for p = (k - 0.5) / 100 and k = 1..100:
\* round(1 / (1 + math.exp(-x)), 2) >= k / 100 exactly when 10000 * x reaches
\* the k-th entry
SigmoidSteps ==
    <<
      -52933, -41845, -36635, -33167, -30550, -28438, -26661, -25123,
      -23762, -22540, -21428, -20406, -19459, -18574, -17743, -16959,
      -16214, -15505, -14828, -14178, -13553, -12950, -12367, -11802,
      -11254, -10721, -10201, -9694, -9197, -8712, -8236, -7768,
      -7308, -6856, -6410, -5971, -5537, -5108, -4683, -4263, -3846,
      -3433, -3022, -2614, -2208, -1804, -1402, -1000, -600, -200,
      201, 601, 1001, 1403, 1805, 2209, 2615, 3023, 3434, 3847, 4264,
      4684, 5109, 5538, 5972, 6411, 6857, 7309, 7769, 8237, 8713,
      9198, 9695, 10202, 10722, 11255, 11803, 12368, 12951, 13554,
      14179, 14829, 15506, 16215, 16960, 17744, 18575, 19460, 20407,
      21429, 22541, 23763, 25124, 26662, 28439, 30551, 33168, 36636,
      41846, 52934
    >>

\* round(1 / (1 + math.exp(-(ability_level * 5 - difficulty))), 2)
_predict_accuracy(profile, difficulty) ==
    LET ability_diff == FSub(FMul(profile.ability_level, F_5), FromInt(difficulty))
    IN  CHOOSE prob \in {Dec(Cardinality({k \in 1..Len(SigmoidSteps) : SigmoidSteps[k] <= x}), 100) :
                            x \in {FRound(FMul(ability_diff, F_10000))}} : TRUE

\* 1 + int(ability_level * 5): five levels scaled from the ability itself
base_diff_Five(profile) == 1 + FTrunc(FMul(profile.ability_level, F_5))

\* 1 + int(profile.ability_level * 4)
base_diff(profile) == 1 + FTrunc(FMul(profile.ability_level, F_4))

Min(a, b) == IF a < b THEN a ELSE b

Max(a, b) == IF a > b THEN a ELSE b

\* the momentum adjustment with >= and <= in place of > and <
MomentumAdjust_Inclusive(base, momentum) ==
    IF ~FLess(momentum, F_0_3) THEN Min(5, base + 1)
    ELSE IF ~FLess(F_neg_0_3, momentum) THEN Max(1, base - 1)
    ELSE base

\* the balanced branch: momentum > 0.3, momentum < -0.3, else base_diff
MomentumAdjust(base, momentum) ==
    IF FLess(F_0_3, momentum) THEN Min(5, base + 1)
    ELSE IF FLess(momentum, F_neg_0_3) THEN Max(1, base - 1)
    ELSE base

_calc_target_difficulty(profile, strategy) ==
    IF strategy = "challenge" THEN Min(5, base_diff(profile) + 1)
    ELSE IF strategy = "review" THEN Max(1, base_diff(profile) - 1)
    ELSE IF strategy = "weak_focus" THEN Max(1, base_diff(profile) - 1)
    ELSE MomentumAdjust(base_diff(profile), profile.momentum)

\* the sample variance: the sum of squares divided by len(values) - 1
_calc_variance_Sample(values) ==
    IF Len(values) < 2 THEN FZero
    ELSE CHOOSE variance \in
             {FDivInt(FSum(sq, 1, FZero), Len(sq) - 1) :
                  sq \in {[i \in DOMAIN v |-> FMul(FSub(v[i], mean), FSub(v[i], mean))] :
                              v \in {[i \in DOMAIN values |-> FromInt(values[i])]},
                              mean \in {FDivInt(FSum([i \in DOMAIN values |-> FromInt(values[i])],
                                                     1, FZero),
                                                Len(values))}}} : TRUE

\* sum((v - mean) ** 2 for v in values) / len(values), mean = sum(values) / len(values);
\* x ** 2 is the correctly rounded square
_calc_variance(values) ==
    IF values = << >> THEN FZero
    ELSE CHOOSE variance \in
             {FDivInt(FSum(sq, 1, FZero), Len(sq)) :
                  sq \in {[i \in DOMAIN v |-> FMul(FSub(v[i], mean), FSub(v[i], mean))] :
                              v \in {[i \in DOMAIN values |-> FromInt(values[i])]},
                              mean \in {FDivInt(FSum([i \in DOMAIN values |-> FromInt(values[i])],
                                                     1, FZero),
                                                Len(values))}}} : TRUE

\* both lists filled from the strong threshold
_update_weak_strong_OneThreshold(domain_abilities) ==
    [weak   |-> {d \in DOMAIN domain_abilities : FLess(domain_abilities[d], strong_threshold)},
     strong |-> {d \in DOMAIN domain_abilities :
                    ~FLess(domain_abilities[d], strong_threshold)}]

_update_weak_strong(domain_abilities) ==
    [weak   |-> {d \in DOMAIN domain_abilities : FLess(domain_abilities[d], weak_threshold)},
     strong |-> {d \in DOMAIN domain_abilities :
                    /\ ~FLess(domain_abilities[d], weak_threshold)
                    /\ FLess(strong_threshold, domain_abilities[d])}]

\* the profile that record_answer leaves: lines 332-360
UpdatedProfile(profile, difficulty, domain_id, is_correct) ==
    LET outcome     == IF is_correct THEN 1 ELSE 0
        recent      == LastN(Append(profile.recent_accuracy, outcome), recent_window)
        expected    == _predict_accuracy(profile, difficulty)
        surprise    == FSub(FromInt(outcome), expected)
        ability     == Clamp(FZero, F_1, FAdd(profile.ability_level,
                                        FMul(surprise, ability_update_rate)))
        momentum    == Clamp(F_neg_1, F_1, FAdd(FMul(profile.momentum, momentum_decay),
                                         IF is_correct THEN F_0_3 ELSE F_neg_0_3))
        stability   == IF Len(recent) >= 5
                       THEN FSub(F_1,
                                 FMin(FMul(_calc_variance(LastN(recent, 10)), F_4),
                                      F_1))
                       ELSE profile.stability
        old_ability == IF domain_id \in DOMAIN profile.domain_abilities
                       THEN profile.domain_abilities[domain_id] ELSE F_0_5
        domains     == IF domain_id # ""
                       THEN (domain_id :> Clamp(FZero, F_1, FAdd(old_ability,
                                                          FMul(surprise, F_0_15))))
                              @@ profile.domain_abilities
                       ELSE profile.domain_abilities
        areas       == _update_weak_strong(domains)
    IN  [ability_level |-> ability, stability |-> stability, momentum |-> momentum,
         domain_abilities |-> domains, recent_accuracy |-> recent,
         weak_areas |-> areas.weak, strong_areas |-> areas.strong]

\* the difficulties and domains a caller passes; "" is no domain
Difficulties == {1, 5}

DomainIds == {"", "d1", "d2"}

record_answer(difficulty, domain_id, is_correct) ==
    /\ Len(adaptive_learning_log) < MaxAnswers
    /\ \E profile \in {get_profile} :
       \E new \in {UpdatedProfile(profile, difficulty, domain_id, is_correct)} :
           /\ profiles' = new
           \* save_profile
           /\ adaptive_learner_profiles' =
                  [new EXCEPT !.recent_accuracy = LastN(@, recent_window)]
           \* _log_answer
           /\ adaptive_learning_log' = Append(adaptive_learning_log,
                  [difficulty |-> difficulty, domain_id |-> domain_id,
                   is_correct |-> IF is_correct THEN 1 ELSE 0,
                   ability_before |-> profile.ability_level,
                   ability_after |-> new.ability_level])
    /\ UNCHANGED target

\* a caller (select_question, get_learning_stats) computes the target difficulty
calc_target_difficulty(strategy) ==
    /\ target' = [strategy |-> strategy,
                  difficulty |-> _calc_target_difficulty(get_profile, strategy)]
    /\ profiles' = get_profile
    /\ UNCHANGED <<adaptive_learner_profiles, adaptive_learning_log>>

(***************************************************************************)
(* Specifications                                                          *)
(***************************************************************************)
\* rows of adaptive_learner_profiles left by earlier record_answer calls:
\*   twenty answers in one domain ending in ten correct ones at difficulty 5,
\*   nineteen answers in one domain ending in ten wrong ones at difficulty 1,
\*   correct answers at difficulties 2, 5, 3, 5 in domains d2, d2, d1, d2,
\*   wrong answers at difficulties 1, 1, 2, 5 in domains d1, d1, d1, d2
StoredProfiles ==
    {[ability_level |-> F_1, stability |-> F_1, momentum |-> F_1,
      domain_abilities |-> ("d1" :> F_1),
      recent_accuracy |-> <<0, 1, 0, 1, 0, 0, 1, 1, 0, 1, 1, 1, 1, 1, 1, 1, 1, 1, 1, 1>>,
      weak_areas |-> {}, strong_areas |-> {"d1"}],
     [ability_level |-> FZero, stability |-> F_1, momentum |-> F_neg_1,
      domain_abilities |-> ("d1" :> FZero),
      recent_accuracy |-> <<0, 1, 0, 1, 0, 0, 1, 1, 0, 0, 0, 0, 0, 0, 0, 0, 0, 0, 0>>,
      weak_areas |-> {"d1"}, strong_areas |-> {}],
     [ability_level |-> Dec(759, 1000), stability |-> F_0_5, momentum |-> F_1,
      domain_abilities |-> ("d1" :> Dec(569, 1000)) @@ ("d2" :> Dec(8195, 10000)),
      recent_accuracy |-> <<1, 1, 1, 1>>,
      weak_areas |-> {}, strong_areas |-> {"d2"}],
     [ability_level |-> Dec(297, 1000), stability |-> F_0_5, momentum |-> F_neg_1,
      domain_abilities |-> ("d1" :> Dec(2, 10)) @@ ("d2" :> Dec(4955, 10000)),
      recent_accuracy |-> <<0, 0, 0, 0>>,
      weak_areas |-> {"d1", "d2"}, strong_areas |-> {}]}

\* the abilities and momenta of the profiles _calc_target_difficulty is applied to;
\* 0.1 + 0.2 is the float next above 0.3
Abilities == {Dec(k, 10000) : k \in {0, 1, 2499, 2500, 2501, 4999, 5000, 7499, 7500, 9999, 10000}}

Momenta == {Dec(k, 100) : k \in {-100, -31, -30, -29, 0, 29, 30, 31, 100}}
             \cup {FAdd(Dec(1, 10), Dec(2, 10)), FNeg(FAdd(Dec(1, 10), Dec(2, 10)))}


(***************************************************************************)
(* PvP rating and matchmaking (src/pvp_system.py, src/pvp_api.py)          *)
(***************************************************************************)
VARIABLES
    pvp_ratings,          \* table pvp_ratings: player_id -> its row, or NoRow
    pvp_match_history,    \* table pvp_match_history: the rows inserted, in order
    pvp_rank_history,     \* table pvp_rank_history: the rows inserted, in order
    pvp_queue,            \* table pvp_queue: the set of its rows
    pvp_bots,             \* table pvp_bots: the set of its rows
    pvp_matchmaking_log,  \* table pvp_matchmaking_log: the rows inserted, in order
    returned              \* the last PvP call and the value it returned

pvpvars == <<pvp_ratings, pvp_match_history, pvp_rank_history, pvp_queue, pvp_bots,
             pvp_matchmaking_log, returned>>

\* a missing row (cur.fetchone() is None)
NoRow == [player_id |-> "NULL"]

\* Python's None as a returned value
None == [none |-> TRUE]

NoCall == [op |-> "none"]

\* list(RankTier), in definition order
RankTier == <<"bronze", "silver", "gold", "platinum", "diamond", "master", "grandmaster">>

RANK_THRESHOLDS ==
    [tier \in {RankTier[i] : i \in 1..Len(RankTier)} |->
        CASE tier = "bronze" -> 0
          [] tier = "silver" -> 1200
          [] tier = "gold" -> 1400
          [] tier = "platinum" -> 1600
          [] tier = "diamond" -> 1800
          [] tier = "master" -> 2000
          [] tier = "grandmaster" -> 2200]

\* the loop of SeasonManager._get_rank_tier from list(RankTier)[i] downwards
RECURSIVE RankTierFrom(_, _)
RankTierFrom(rating, i) ==
    IF i = 0 THEN RankTier[1]
    ELSE IF rating >= RANK_THRESHOLDS[RankTier[i]] THEN RankTier[i]
    ELSE RankTierFrom(rating, i - 1)

_get_rank_tier(rating) == RankTierFrom(rating, Len(RankTier))

\* the loop with a strict comparison
RECURSIVE TierFrom_Strict(_, _)
TierFrom_Strict(rating, i) ==
    IF i = 0 THEN RankTier[1]
    ELSE IF rating > RANK_THRESHOLDS[RankTier[i]] THEN RankTier[i]
    ELSE TierFrom_Strict(rating, i - 1)

\* the loop of LeaderboardManager._get_tier from list(RankTier)[i] downwards
RECURSIVE TierFrom(_, _)
TierFrom(rating, i) ==
    IF i = 0 THEN RankTier[1]
    ELSE IF rating >= RANK_THRESHOLDS[RankTier[i]] THEN RankTier[i]
    ELSE TierFrom(rating, i - 1)

\* a rating on a threshold left in the lower tier
_get_tier_Strict(rating) == TierFrom_Strict(rating, Len(RankTier))

_get_tier(rating) == TierFrom(rating, Len(RankTier))

\* the two directions exchanged
ChangeType_Reversed(old_tier, new_tier) ==
    IF RANK_THRESHOLDS[new_tier] > RANK_THRESHOLDS[old_tier] THEN "demote" ELSE "promote"

\* 'promote' if RANK_THRESHOLDS[new_tier] > RANK_THRESHOLDS[old_tier] else 'demote'
ChangeType(old_tier, new_tier) ==
    IF RANK_THRESHOLDS[new_tier] > RANK_THRESHOLDS[old_tier] THEN "promote" ELSE "demote"

\* LeaderboardManager.check_rank_change: the value it returns and the
\* pvp_rank_history rows it inserts (the icon of the event is left out)
RankChange(player_id, old_rating, new_rating) ==
    LET old_tier == _get_tier(old_rating)
        new_tier == _get_tier(new_rating)
        change_type == ChangeType(old_tier, new_tier)
    IN  IF old_tier = new_tier THEN [value |-> None, rows |-> << >>]
        ELSE [value |-> [player_id |-> player_id, old_tier |-> old_tier,
                         new_tier |-> new_tier, change_type |-> change_type],
              rows |-> <<[player_id |-> player_id, old_rank |-> old_tier,
                          new_rank |-> new_tier, old_rating |-> old_rating,
                          new_rating |-> new_rating, change_type |-> change_type]>>]

\* a direct call of LeaderboardManager.check_rank_change
check_rank_change(player_id, old_rating, new_rating) ==
    /\ Len(pvp_rank_history) < MaxRankChanges
    /\ \E change \in {RankChange(player_id, old_rating, new_rating)} :
          /\ pvp_rank_history' = pvp_rank_history \o change.rows
          /\ returned' = [op |-> "check_rank_change", player_id |-> player_id,
                          old_rating |-> old_rating, new_rating |-> new_rating,
                          value |-> change.value]
    /\ UNCHANGED <<pvp_ratings, pvp_match_history, pvp_queue, pvp_bots, pvp_matchmaking_log>>

\* a tier lookup by both managers (SeasonManager.end_season and the
\* leaderboard queries look a rating up this way)
get_tier(rating) ==
    /\ returned' = [op |-> "get_tier", rating |-> rating,
                    tier |-> _get_tier(rating), rank_tier |-> _get_rank_tier(rating)]
    /\ UNCHANGED <<pvp_ratings, pvp_match_history, pvp_rank_history, pvp_queue, pvp_bots,
                   pvp_matchmaking_log>>

\* K = 32
K == 32

\* the rating of a player without a pvp_ratings row
DefaultRating == 1200

\* player ids from here on are bots (player2_id < 9000 is "not a bot")
BotIdFrom == 9000

\* 1 / (1 + 10 ** (d / 400)) for d = r2_rating - r1_rating in -800..800, as
\* CPython computes it in binary64: <<limbs of the mantissa, exponent>>
ExpectedScoreTable ==
    <<
     <<29848, 15572, 15248, 253, -53>>, <<26722, 25066, 14773, 253, -53>>, <<14210, 12088, 14296, 253, -53>>, <<4673, 8918, 13816, 253, -53>>,
     <<24119, 15065, 13333, 253, -53>>, <<13489, 30038, 12847, 253, -53>>, <<24865, 20572, 12359, 253, -53>>, <<24456, 18938, 11868, 253, -53>>,
     <<23255, 24635, 11374, 253, -53>>, <<11100, 4392, 10878, 253, -53>>, <<21799, 23238, 10378, 253, -53>>, <<1638, 15130, 9876, 253, -53>>,
     <<5591, 12323, 9371, 253, -53>>, <<277, 14304, 8863, 253, -53>>, <<27400, 20555, 8352, 253, -53>>, <<6710, 30559, 7838, 253, -53>>,
     <<30512, 11023, 7322, 253, -53>>, <<2778, 26961, 6802, 253, -53>>, <<31960, 12306, 6280, 253, -53>>, <<4565, 32067, 5754, 253, -53>>,
     <<10732, 20172, 5226, 253, -53>>, <<16107, 8854, 4695, 253, -53>>, <<25271, 30342, 4160, 253, -53>>, <<15770, 18559, 3623, 253, -53>>,
     <<3222, 5728, 3083, 253, -53>>, <<8109, 24069, 2539, 253, -53>>, <<22591, 7496, 1993, 253, -53>>, <<10058, 20993, 1443, 253, -53>>,
     <<3010, 31235, 890, 253, -53>>, <<4309, 4895, 335, 253, -53>>, <<19505, 6947, 32544, 252, -53>>, <<23647, 4059, 31982, 252, -53>>,
     <<26352, 28431, 31416, 252, -53>>, <<5848, 13957, 30848, 252, -53>>, <<6826, 25598, 30276, 252, -53>>, <<8923, 30010, 29701, 252, -53>>,
     <<24583, 26613, 29123, 252, -53>>, <<303, 14826, 28542, 252, -53>>, <<12793, 26829, 27957, 252, -53>>, <<6384, 29267, 27369, 252, -53>>,
     <<21954, 21547, 26778, 252, -53>>, <<32631, 3075, 26184, 252, -53>>, <<8876, 6022, 25586, 252, -53>>, <<16338, 29785, 24984, 252, -53>>,
     <<18785, 8225, 24380, 252, -53>>, <<8718, 6271, 23772, 252, -53>>, <<6917, 23312, 23160, 252, -53>>, <<29207, 25966, 22545, 252, -53>>,
     <<20469, 13618, 21927, 252, -53>>, <<18011, 18415, 21305, 252, -53>>, <<20032, 6966, 20680, 252, -53>>, <<17935, 11413, 20051, 252, -53>>,
     <<28619, 31126, 19418, 252, -53>>, <<28480, 32705, 18782, 252, -53>>, <<18482, 15514, 18143, 252, -53>>, <<23680, 11681, 17500, 252, -53>>,
     <<27225, 20564, 16853, 252, -53>>, <<2646, 8750, 16203, 252, -53>>, <<11696, 8356, 15549, 252, -53>>, <<7264, 18731, 14891, 252, -53>>,
     <<29503, 6450, 14230, 252, -53>>, <<8757, 3624, 13565, 252, -53>>, <<27218, 9588, 12896, 252, -53>>, <<23546, 23678, 12223, 252, -53>>,
     <<21750, 12456, 11547, 252, -53>>, <<32428, 8017, 10867, 252, -53>>, <<19494, 9686, 10183, 252, -53>>, <<30778, 16782, 9495, 252, -53>>,
     <<944, 28624, 8803, 252, -53>>, <<13131, 11755, 8108, 252, -53>>, <<3569, 31023, 7408, 252, -53>>, <<23234, 20197, 6705, 252, -53>>,
     <<7984, 11350, 5998, 252, -53>>, <<7446, 3780, 5287, 252, -53>>, <<20693, 29551, 4571, 252, -53>>, <<28511, 22420, 3852, 252, -53>>,
     <<25688, 14444, 3129, 252, -53>>, <<20515, 4908, 2402, 252, -53>>, <<1526, 25862, 1670, 252, -53>>, <<2548, 11047, 935, 252, -53>>,
     <<3888, 25274, 195, 252, -53>>, <<30160, 2277, 32220, 251, -53>>, <<18702, 6861, 31472, 251, -53>>, <<15696, 5520, 30720, 251, -53>>,
     <<11828, 30282, 29963, 251, -53>>, <<7326, 14867, 29203, 251, -53>>, <<11458, 24063, 28438, 251, -53>>, <<9271, 24351, 27669, 251, -53>>,
     <<26621, 14975, 26896, 251, -53>>, <<31371, 27945, 26118, 251, -53>>, <<31185, 29730, 25336, 251, -53>>, <<7508, 19564, 24550, 251, -53>>,
     <<13347, 29443, 23759, 251, -53>>, <<8938, 25826, 22964, 251, -53>>, <<25078, 7934, 22165, 251, -53>>, <<31553, 7754, 21361, 251, -53>>,
     <<2163, 24501, 20552, 251, -53>>, <<12521, 24615, 19739, 251, -53>>, <<10171, 7304, 18922, 251, -53>>, <<10695, 4538, 18100, 251, -53>>,
     <<31658, 15515, 17273, 251, -53>>, <<26573, 6663, 16442, 251, -53>>, <<15462, 9940, 15606, 251, -53>>, <<18809, 24532, 14765, 251, -53>>,
     <<24288, 16854, 13920, 251, -53>>, <<19016, 18853, 13070, 251, -53>>, <<21816, 29703, 12215, 251, -53>>, <<17162, 15807, 11356, 251, -53>>,
     <<20219, 9099, 10492, 251, -53>>, <<10782, 8742, 9623, 251, -53>>, <<31080, 13893, 8749, 251, -53>>, <<21413, 23708, 7870, 251, -53>>,
     <<16262, 4568, 6987, 251, -53>>, <<12693, 21155, 6098, 251, -53>>, <<2626, 7075, 5205, 251, -53>>, <<5075, 27001, 4306, 251, -53>>,
     <<117, 14531, 3403, 251, -53>>, <<26670, 1561, 2495, 251, -53>>, <<18155, 19986, 1581, 251, -53>>, <<31340, 3389, 663, 251, -53>>,
     <<16478, 16424, 32507, 250, -53>>, <<13375, 25434, 31578, 250, -53>>, <<19832, 29527, 30644, 250, -53>>, <<23880, 27807, 29705, 250, -53>>,
     <<3284, 19374, 28761, 250, -53>>, <<23327, 3321, 27812, 250, -53>>, <<6923, 11509, 26857, 250, -53>>, <<29021, 10254, 25897, 250, -53>>,
     <<21180, 31408, 24931, 250, -53>>, <<441, 8512, 23961, 250, -53>>, <<3268, 6174, 22985, 250, -53>>, <<19511, 23463, 22003, 250, -53>>,
     <<24667, 26676, 21016, 250, -53>>, <<12133, 14873, 20024, 250, -53>>, <<25466, 19876, 19026, 250, -53>>, <<26809, 7969, 18023, 250, -53>>,
     <<27447, 10966, 17014, 250, -53>>, <<21773, 27909, 15999, 250, -53>>, <<19539, 25067, 14979, 250, -53>>, <<12595, 1473, 13954, 250, -53>>,
     <<7144, 21691, 12922, 250, -53>>, <<23238, 19208, 11885, 250, -53>>, <<28739, 25812, 10842, 250, -53>>, <<4358, 7750, 9794, 250, -53>>,
     <<8681, 29566, 8739, 250, -53>>, <<13837, 24730, 7679, 250, -53>>, <<3291, 25011, 6613, 250, -53>>, <<4121, 29404, 5541, 250, -53>>,
     <<20986, 4132, 4464, 250, -53>>, <<2852, 13719, 3380, 250, -53>>, <<6342, 24377, 2290, 250, -53>>, <<31404, 2315, 1195, 250, -53>>,
     <<20811, 12043, 93, 250, -53>>, <<23516, 19759, 31753, 249, -53>>, <<30313, 24426, 30639, 249, -53>>, <<6116, 25003, 29519, 249, -53>>,
     <<20556, 20441, 28393, 249, -53>>, <<18099, 9690, 27261, 249, -53>>, <<14180, 24461, 26122, 249, -53>>, <<29183, 30924, 24977, 249, -53>>,
     <<22418, 28014, 23826, 249, -53>>, <<22712, 14659, 22669, 249, -53>>, <<29633, 22551, 21505, 249, -53>>, <<13007, 17842, 20335, 249, -53>>,
     <<10744, 32213, 19158, 249, -53>>, <<30062, 31805, 17975, 249, -53>>, <<14253, 15524, 16786, 249, -53>>, <<6049, 15036, 15590, 249, -53>>,
     <<16072, 29235, 14387, 249, -53>>, <<22387, 24243, 13178, 249, -53>>, <<2787, 31713, 11962, 249, -53>>, <<32652, 17754, 10740, 249, -53>>,
     <<22330, 14011, 9511, 249, -53>>, <<11602, 19352, 8275, 249, -53>>, <<5382, 32641, 7032, 249, -53>>, <<6033, 19969, 5783, 249, -53>>,
     <<12917, 12958, 4527, 249, -53>>, <<21948, 10457, 3264, 249, -53>>, <<25146, 11310, 1994, 249, -53>>, <<10189, 14356, 717, 249, -53>>,
     <<25519, 18427, 32201, 248, -53>>, <<16056, 22353, 30910, 248, -53>>, <<19374, 24956, 29612, 248, -53>>, <<1429, 25055, 28307, 248, -53>>,
     <<19968, 21461, 26995, 248, -53>>, <<27504, 12983, 25676, 248, -53>>, <<1952, 31192, 24349, 248, -53>>, <<11753, 9347, 23016, 248, -53>>,
     <<18848, 11777, 21675, 248, -53>>, <<9336, 4501, 20327, 248, -53>>, <<25829, 19067, 18971, 248, -53>>, <<3213, 21485, 17608, 248, -53>>,
     <<30382, 10523, 16238, 248, -53>>, <<22156, 17717, 14860, 248, -53>>, <<13806, 9058, 13475, 248, -53>>, <<29578, 16068, 12082, 248, -53>>,
     <<16778, 4730, 10682, 248, -53>>, <<9223, 6555, 9274, 248, -53>>, <<28555, 20281, 7858, 248, -53>>, <<18323, 11875, 6435, 248, -53>>,
     <<7460, 12832, 5004, 248, -53>>, <<11608, 21874, 3565, 248, -53>>, <<32739, 4950, 2119, 248, -53>>, <<26048, 26309, 664, 248, -53>>,
     <<30650, 19120, 31970, 247, -53>>, <<5396, 14853, 30500, 247, -53>>, <<25139, 12201, 29022, 247, -53>>, <<18231, 9856, 27536, 247, -53>>,
     <<28348, 6501, 26042, 247, -53>>, <<17531, 816, 24540, 247, -53>>, <<29710, 24241, 23029, 247, -53>>, <<26535, 9909, 21511, 247, -53>>,
     <<18126, 22018, 19984, 247, -53>>, <<29995, 26456, 18449, 247, -53>>, <<4439, 21876, 16906, 247, -53>>, <<29596, 6921, 15355, 247, -53>>,
     <<11487, 13002, 13795, 247, -53>>, <<1387, 5984, 12227, 247, -53>>, <<31707, 17263, 10650, 247, -53>>, <<17406, 12697, 9065, 247, -53>>,
     <<17860, 23670, 7471, 247, -53>>, <<7210, 16027, 5869, 247, -53>>, <<5183, 21142, 4258, 247, -53>>, <<11280, 4848, 2639, 247, -53>>,
     <<4543, 31277, 1010, 247, -53>>, <<8827, 714, 32142, 246, -53>>, <<27037, 10047, 30496, 246, -53>>, <<8122, 25088, 28841, 246, -53>>,
     <<10687, 11640, 27178, 246, -53>>, <<6168, 1039, 25506, 246, -53>>, <<9688, 24614, 23824, 246, -53>>, <<14311, 15385, 22134, 246, -53>>,
     <<23616, 4670, 20435, 246, -53>>, <<18733, 23782, 18726, 246, -53>>, <<23693, 5723, 17009, 246, -53>>, <<6945, 14563, 15282, 246, -53>>,
     <<12257, 16060, 13546, 246, -53>>, <<27477, 8736, 11801, 246, -53>>, <<17150, 23876, 10046, 246, -53>>, <<20667, 27221, 8282, 246, -53>>,
     <<21054, 17276, 6509, 246, -53>>, <<10373, 25308, 4726, 246, -53>>, <<22370, 17041, 2934, 246, -53>>, <<1278, 23732, 1132, 246, -53>>,
     <<31085, 11092, 32089, 245, -53>>, <<7755, 10368, 30268, 245, -53>>, <<32352, 20027, 28437, 245, -53>>, <<17734, 5768, 26597, 245, -53>>,
     <<16167, 31584, 24746, 245, -53>>, <<22637, 30392, 22886, 245, -53>>, <<7571, 640, 21017, 245, -53>>, <<15084, 6304, 19137, 245, -53>>,
     <<31876, 13052, 17247, 245, -53>>, <<19957, 19315, 15347, 245, -53>>, <<14941, 23516, 13437, 245, -53>>, <<27717, 24073, 11517, 245, -53>>,
     <<11695, 19400, 9587, 245, -53>>, <<26636, 7902, 7647, 245, -53>>, <<9305, 20750, 5696, 245, -53>>, <<2868, 23570, 3735, 245, -53>>,
     <<25860, 14751, 1764, 245, -53>>, <<6690, 25447, 32550, 244, -53>>, <<13086, 21266, 30558, 244, -53>>, <<22773, 581, 28556, 244, -53>>,
     <<21866, 27295, 26542, 244, -53>>, <<4955, 1465, 24519, 244, -53>>, <<7974, 19749, 22484, 244, -53>>, <<10005, 14961, 20439, 244, -53>>,
     <<31712, 18212, 18383, 244, -53>>, <<4390, 27842, 16316, 244, -53>>, <<32267, 9412, 14239, 244, -53>>, <<32203, 26787, 12150, 244, -53>>,
     <<28778, 12751, 10051, 244, -53>>, <<23389, 31155, 7940, 244, -53>>, <<27220, 14772, 5819, 244, -53>>, <<28673, 27442, 3686, 244, -53>>,
     <<26353, 1927, 1543, 244, -53>>, <<29299, 2055, 32156, 243, -53>>, <<24450, 26113, 29989, 243, -53>>, <<9673, 6846, 27812, 243, -53>>,
     <<26800, 8064, 25623, 243, -53>>, <<30823, 28038, 23422, 243, -53>>, <<21274, 32264, 21210, 243, -53>>, <<9752, 19000, 18987, 243, -53>>,
     <<20244, 19266, 16752, 243, -53>>, <<23930, 31310, 14505, 243, -53>>, <<5051, 20606, 12247, 243, -53>>, <<26818, 18156, 9977, 243, -53>>,
     <<2404, 22193, 7695, 243, -53>>, <<23013, 30939, 5401, 243, -53>>, <<30603, 9847, 3096, 243, -53>>, <<14914, 22667, 778, 243, -53>>,
     <<13896, 2070, 31217, 242, -53>>, <<15855, 11795, 28875, 242, -53>>, <<25445, 17271, 26521, 242, -53>>, <<31384, 16690, 24155, 242, -53>>,
     <<6940, 8239, 21777, 242, -53>>, <<8743, 22865, 19386, 242, -53>>, <<13473, 25976, 16983, 242, -53>>, <<16695, 15742, 14568, 242, -53>>,
     <<653, 23096, 12140, 242, -53>>, <<370, 13428, 9700, 242, -53>>, <<5934, 17660, 7247, 242, -53>>, <<28637, 1172, 4782, 242, -53>>,
     <<3290, 27645, 2303, 242, -53>>, <<18233, 29678, 32580, 241, -53>>, <<21085, 5405, 30077, 241, -53>>, <<16009, 18489, 27560, 241, -53>>,
     <<31643, 1515, 25031, 241, -53>>, <<23496, 18137, 22488, 241, -53>>, <<5740, 930, 19933, 241, -53>>, <<19187, 13535, 17364, 241, -53>>,
     <<975, 21287, 14782, 241, -53>>, <<14714, 22280, 12187, 241, -53>>, <<21910, 14606, 9579, 241, -53>>, <<13846, 29119, 6957, 241, -53>>,
     <<12422, 31131, 4322, 241, -53>>, <<5455, 18718, 1674, 241, -53>>, <<13093, 22718, 31780, 240, -53>>, <<23167, 8429, 29105, 240, -53>>,
     <<24864, 6680, 26416, 240, -53>>, <<9654, 15527, 23713, 240, -53>>, <<5004, 252, 20997, 240, -53>>, <<9811, 24437, 18266, 240, -53>>,
     <<28150, 20587, 15522, 240, -53>>, <<4752, 19508, 12764, 240, -53>>, <<22635, 19229, 9992, 240, -53>>, <<9234, 17779, 7206, 240, -53>>,
     <<32394, 13178, 4406, 240, -53>>, <<6532, 3446, 1592, 240, -53>>, <<21435, 19361, 31531, 239, -53>>, <<15708, 26165, 28688, 239, -53>>,
     <<7305, 21861, 25831, 239, -53>>, <<29168, 4447, 22960, 239, -53>>, <<32110, 4687, 20074, 239, -53>>, <<17114, 20571, 17173, 239, -53>>,
     <<3803, 17316, 14258, 239, -53>>, <<31695, 25670, 11328, 239, -53>>, <<30427, 10844, 8384, 239, -53>>, <<17661, 3578, 5425, 239, -53>>,
     <<2111, 1840, 2451, 239, -53>>, <<17673, 3593, 32230, 238, -53>>, <<26483, 6798, 29226, 238, -53>>, <<18633, 9411, 26207, 238, -53>>,
     <<13587, 9383, 23173, 238, -53>>, <<28863, 4661, 20124, 238, -53>>, <<15967, 25958, 17059, 238, -53>>, <<25731, 5676, 13980, 238, -53>>,
     <<13218, 7288, 10885, 238, -53>>, <<3113, 28725, 7774, 238, -53>>, <<25748, 2378, 4649, 238, -53>>, <<20398, 24477, 1507, 238, -53>>,
     <<738, 27406, 31118, 237, -53>>, <<23717, 9080, 27946, 237, -53>>, <<27382, 182, 24758, 237, -53>>, <<29197, 31389, 21553, 237, -53>>,
     <<29437, 2303, 18334, 237, -53>>, <<12951, 9131, 15098, 237, -53>>, <<16469, 17003, 11846, 237, -53>>, <<32081, 23815, 8578, 237, -53>>,
     <<9084, 27461, 5294, 237, -53>>, <<19661, 25828, 1994, 237, -53>>, <<31384, 16803, 31446, 236, -53>>, <<7426, 31038, 28113, 236, -53>>,
     <<6801, 875, 24765, 236, -53>>, <<22473, 22495, 21399, 236, -53>>, <<16128, 28237, 18017, 236, -53>>, <<18478, 15971, 14619, 236, -53>>,
     <<243, 16334, 11204, 236, -53>>, <<5288, 27190, 7772, 236, -53>>, <<21652, 13634, 4324, 236, -53>>, <<16449, 6295, 859, 236, -53>>,
     <<3550, 3030, 30145, 235, -53>>, <<13013, 1693, 26646, 235, -53>>, <<27749, 137, 23130, 235, -53>>, <<18542, 28981, 19596, 235, -53>>,
     <<11855, 20536, 16046, 235, -53>>, <<26591, 5415, 12479, 235, -53>>, <<10901, 14231, 8894, 235, -53>>, <<8372, 12056, 5292, 235, -53>>,
     <<29348, 29497, 1672, 235, -53>>, <<20593, 31625, 30803, 234, -53>>, <<31575, 16274, 27149, 234, -53>>, <<20337, 14047, 23477, 234, -53>>,
     <<19859, 22775, 19787, 234, -53>>, <<9520, 7521, 16080, 234, -53>>, <<15979, 31649, 12354, 234, -53>>, <<17480, 27451, 8611, 234, -53>>,
     <<12018, 25521, 4850, 234, -53>>, <<20011, 23683, 1071, 234, -53>>, <<21459, 19761, 30042, 233, -53>>, <<24215, 11577, 26227, 233, -53>>,
     <<1211, 29721, 22393, 233, -53>>, <<24317, 6475, 18542, 233, -53>>, <<5033, 5197, 14672, 233, -53>>, <<25023, 23703, 10783, 233, -53>>,
     <<11324, 27045, 6876, 233, -53>>, <<1420, 13039, 2951, 233, -53>>, <<15116, 12269, 31775, 232, -53>>, <<24766, 22552, 27812, 232, -53>>,
     <<23831, 8936, 23831, 232, -53>>, <<29928, 2004, 19831, 232, -53>>, <<22383, 32340, 15811, 232, -53>>, <<10894, 32223, 11773, 232, -53>>,
     <<5911, 32236, 7716, 232, -53>>, <<21821, 30194, 3640, 232, -53>>, <<14642, 23914, 32313, 231, -53>>, <<16344, 11211, 28199, 231, -53>>,
     <<7069, 22670, 24065, 231, -53>>, <<16752, 23339, 19912, 231, -53>>, <<30179, 11036, 15740, 231, -53>>, <<23147, 16348, 11548, 231, -53>>,
     <<31420, 4325, 7337, 231, -53>>, <<23120, 5556, 3106, 231, -53>>, <<522, 17862, 31623, 230, -53>>, <<3585, 6296, 27353, 230, -53>>,
     <<15211, 1450, 23063, 230, -53>>, <<30378, 1149, 18753, 230, -53>>, <<27004, 3220, 14423, 230, -53>>, <<2382, 5491, 10073, 230, -53>>,
     <<9650, 5790, 5703, 230, -53>>, <<30456, 1949, 1313, 230, -53>>, <<11505, 24571, 29670, 229, -53>>, <<32195, 5953, 25240, 229, -53>>,
     <<13551, 9471, 20789, 229, -53>>, <<17026, 195, 16318, 229, -53>>, <<19021, 8736, 11826, 229, -53>>, <<13148, 171, 7314, 229, -53>>,
     <<14214, 5115, 2781, 229, -53>>, <<29464, 21418, 30995, 228, -53>>, <<29881, 14166, 26421, 228, -53>>, <<19799, 13983, 21826, 228, -53>>,
     <<8269, 18728, 17210, 228, -53>>, <<13218, 26263, 12573, 228, -53>>, <<111, 1687, 7916, 228, -53>>, <<17255, 8404, 3237, 228, -53>>,
     <<3456, 11521, 31305, 227, -53>>, <<21705, 8913, 26584, 227, -53>>, <<1370, 31231, 21841, 227, -53>>, <<4715, 10822, 17078, 227, -53>>,
     <<1935, 11112, 12293, 227, -53>>, <<6674, 29994, 7486, 227, -53>>, <<14974, 32598, 2658, 227, -53>>, <<9790, 16827, 30577, 226, -53>>,
     <<31076, 13355, 25706, 226, -53>>, <<16540, 20096, 20813, 226, -53>>, <<2873, 2198, 15899, 226, -53>>, <<32101, 23118, 10962, 226, -53>>,
     <<25216, 15250, 6004, 226, -53>>, <<16277, 9294, 1024, 226, -53>>, <<26102, 3188, 28790, 225, -53>>, <<1540, 27646, 23765, 225, -53>>,
     <<16905, 15080, 18719, 225, -53>>, <<16711, 28984, 13650, 225, -53>>, <<17186, 1784, 8560, 225, -53>>, <<12902, 29753, 3446, 225, -53>>,
     <<14528, 12562, 31079, 224, -53>>, <<21067, 13729, 25921, 224, -53>>, <<24900, 31243, 20740, 224, -53>>, <<16873, 30332, 15537, 224, -53>>,
     <<24172, 8998, 10312, 224, -53>>, <<17170, 30788, 5063, 224, -53>>, <<12914, 28183, 32560, 223, -53>>, <<14810, 31976, 27266, 223, -53>>,
     <<17863, 7432, 21950, 223, -53>>, <<13973, 18128, 16610, 223, -53>>, <<30012, 29344, 11247, 223, -53>>, <<2111, 6371, 5862, 223, -53>>,
     <<10416, 12808, 453, 223, -53>>, <<22363, 13962, 27789, 222, -53>>, <<29199, 7916, 22334, 222, -53>>, <<18703, 25530, 16855, 222, -53>>,
     <<13464, 32136, 11353, 222, -53>>, <<10896, 25844, 5828, 222, -53>>, <<21587, 4773, 280, 222, -53>>, <<9377, 32589, 27475, 221, -53>>,
     <<28068, 9125, 21880, 221, -53>>, <<30499, 30835, 16260, 221, -53>>, <<5322, 30342, 10617, 221, -53>>, <<15502, 5813, 4951, 221, -53>>,
     <<7492, 20965, 32028, 220, -53>>, <<13627, 8451, 26314, 220, -53>>, <<26884, 32008, 20575, 220, -53>>, <<6745, 24313, 14813, 220, -53>>,
     <<16158, 16355, 9027, 220, -53>>, <<30838, 6369, 3217, 220, -53>>, <<10767, 25370, 30150, 219, -53>>, <<4459, 6078, 24292, 219, -53>>,
     <<23898, 12298, 18409, 219, -53>>, <<17806, 9545, 12502, 219, -53>>, <<8773, 28880, 6570, 219, -53>>, <<1034, 3073, 615, 219, -53>>,
     <<19368, 28746, 27402, 218, -53>>, <<16919, 5928, 21398, 218, -53>>, <<12449, 31267, 15368, 218, -53>>, <<30984, 4816, 9315, 218, -53>>,
     <<11747, 23252, 3236, 218, -53>>, <<10993, 19422, 29901, 217, -53>>, <<11683, 24493, 23773, 217, -53>>, <<28075, 4109, 17621, 217, -53>>,
     <<13748, 22234, 11443, 217, -53>>, <<31774, 11771, 5241, 217, -53>>, <<31712, 3945, 31782, 216, -53>>, <<19838, 29994, 25529, 216, -53>>,
     <<16, 22867, 19252, 216, -53>>, <<12899, 13831, 12950, 216, -53>>, <<11313, 1403, 6623, 216, -53>>, <<30567, 16881, 270, 216, -53>>,
     <<31114, 26045, 26660, 215, -53>>, <<3362, 27458, 20257, 215, -53>>, <<6985, 19697, 13829, 215, -53>>, <<13630, 1358, 7376, 215, -53>>,
     <<11794, 3821, 897, 215, -53>>, <<13415, 25714, 27160, 214, -53>>, <<27708, 146, 20631, 214, -53>>, <<2257, 24085, 14075, 214, -53>>,
     <<26257, 30672, 7494, 214, -53>>, <<9496, 18607, 888, 214, -53>>, <<16697, 19371, 27024, 213, -53>>, <<12066, 31698, 20366, 213, -53>>,
     <<29831, 21570, 13683, 213, -53>>, <<17108, 20526, 6974, 213, -53>>, <<4470, 27353, 239, 213, -53>>, <<14381, 8089, 26247, 212, -53>>,
     <<2407, 27097, 19460, 212, -53>>, <<27813, 17684, 12648, 212, -53>>, <<30958, 11484, 5810, 212, -53>>, <<3916, 7381, 31714, 211, -53>>,
     <<30026, 4276, 24824, 211, -53>>, <<28549, 1095, 17908, 211, -53>>, <<23613, 29549, 10965, 211, -53>>, <<19949, 23066, 3997, 211, -53>>,
     <<9710, 13399, 29771, 210, -53>>, <<12059, 32321, 22750, 210, -53>>, <<14458, 13323, 15704, 210, -53>>, <<12268, 20989, 8631, 210, -53>>,
     <<15577, 21620, 1532, 210, -53>>, <<23274, 14307, 27175, 209, -53>>, <<29882, 30931, 20023, 209, -53>>, <<32392, 5091, 12846, 209, -53>>,
     <<4342, 1481, 5642, 209, -53>>, <<951, 19279, 31179, 208, -53>>, <<2116, 24920, 23922, 208, -53>>, <<17549, 17629, 16639, 208, -53>>,
     <<28077, 29423, 9329, 208, -53>>, <<25222, 26806, 1993, 208, -53>>, <<18041, 9073, 27399, 207, -53>>, <<7159, 8311, 20010, 207, -53>>,
     <<24354, 23862, 12594, 207, -53>>, <<8283, 22327, 5152, 207, -53>>, <<7889, 3096, 30452, 206, -53>>, <<25337, 31121, 22956, 206, -53>>,
     <<22800, 7540, 15435, 206, -53>>, <<27518, 30122, 7886, 206, -53>>, <<7483, 55, 312, 206, -53>>, <<9248, 15158, 25478, 205, -53>>,
     <<815, 9438, 17850, 205, -53>>, <<9419, 15230, 10195, 205, -53>>, <<29917, 32128, 2513, 205, -53>>, <<31472, 26985, 27573, 204, -53>>,
     <<29747, 32215, 19838, 204, -53>>, <<28019, 14723, 12077, 204, -53>>, <<23800, 6977, 4289, 204, -53>>, <<15441, 8704, 29242, 203, -53>>,
     <<8719, 19658, 21400, 203, -53>>, <<23397, 6852, 13532, 203, -53>>, <<1458, 2865, 5637, 203, -53>>, <<10229, 7532, 30483, 202, -53>>,
     <<19494, 20719, 22534, 202, -53>>, <<6258, 9552, 14559, 202, -53>>, <<26720, 6719, 6557, 202, -53>>, <<26080, 12172, 31296, 201, -53>>,
     <<8743, 25890, 23240, 201, -53>>, <<11914, 15112, 15158, 201, -53>>, <<13601, 12644, 7049, 201, -53>>, <<4440, 18553, 31681, 200, -53>>,
     <<26713, 166, 23519, 200, -53>>, <<16724, 23147, 15329, 200, -53>>, <<7590, 22115, 7113, 200, -53>>, <<4308, 30024, 31638, 199, -53>>,
     <<22642, 14322, 23369, 199, -53>>, <<29640, 8025, 15073, 199, -53>>, <<15209, 11411, 6750, 199, -53>>, <<30864, 24787, 31168, 198, -53>>,
     <<31837, 15726, 22792, 198, -53>>, <<14051, 17367, 14389, 198, -53>>, <<19975, 30111, 5959, 198, -53>>, <<13366, 21625, 30271, 197, -53>>,
     <<16108, 25142, 21788, 197, -53>>, <<15623, 8392, 13279, 197, -53>>, <<3312, 4673, 4743, 197, -53>>, <<12945, 14546, 28948, 196, -53>>,
     <<27916, 5838, 20359, 196, -53>>, <<19543, 11945, 11743, 196, -53>>, <<18050, 758, 3101, 196, -53>>, <<19686, 5738, 27200, 195, -53>>,
     <<24843, 27611, 18504, 195, -53>>, <<10582, 1601, 9783, 195, -53>>, <<1410, 26804, 1034, 195, -53>>, <<8927, 5742, 25028, 194, -53>>,
     <<4173, 4812, 16227, 194, -53>>, <<20998, 24907, 7399, 194, -53>>, <<29982, 1420, 31314, 193, -53>>, <<8903, 850, 22434, 193, -53>>,
     <<13152, 24192, 13527, 193, -53>>, <<16680, 6942, 4595, 193, -53>>, <<15050, 15702, 28404, 192, -53>>, <<30104, 18804, 19419, 192, -53>>,
     <<16254, 17385, 10408, 192, -53>>, <<28852, 12614, 1371, 192, -53>>, <<32039, 5698, 25076, 191, -53>>, <<1433, 30647, 15986, 191, -53>>,
     <<26746, 23199, 6871, 191, -53>>, <<21106, 17437, 30498, 190, -53>>, <<20128, 14708, 21331, 190, -53>>, <<22157, 16396, 12138, 190, -53>>,
     <<25040, 23921, 2919, 190, -53>>, <<30055, 5971, 26443, 189, -53>>, <<12981, 29575, 17172, 189, -53>>, <<26166, 30724, 7876, 189, -53>>,
     <<5606, 10985, 31323, 188, -53>>, <<3905, 4726, 21976, 188, -53>>, <<29956, 13585, 12603, 188, -53>>, <<19595, 6471, 3205, 188, -53>>,
     <<2777, 17863, 26549, 187, -53>>, <<8521, 16741, 17100, 187, -53>>, <<2537, 4892, 7626, 187, -53>>, <<21369, 16906, 30894, 186, -53>>,
     <<11525, 21877, 21369, 186, -53>>, <<28980, 21701, 11819, 186, -53>>, <<12585, 18315, 2244, 186, -53>>, <<16148, 13690, 25412, 185, -53>>,
     <<14415, 9837, 15787, 185, -53>>, <<3891, 8804, 6137, 185, -53>>, <<5241, 12676, 29230, 184, -53>>, <<63, 23577, 19530, 184, -53>>,
     <<31398, 10899, 9806, 184, -53>>, <<9235, 9612, 57, 184, -53>>, <<7418, 21951, 23051, 183, -53>>, <<3419, 17424, 13253, 183, -53>>,
     <<11195, 31112, 3430, 183, -53>>, <<17353, 32599, 26351, 182, -53>>, <<15506, 24275, 16480, 182, -53>>, <<7755, 8568, 6585, 182, -53>>,
     <<6058, 20712, 29433, 181, -53>>, <<733, 30444, 19489, 181, -53>>, <<27146, 7538, 9522, 181, -53>>, <<2919, 20114, 32298, 180, -53>>,
     <<23777, 5253, 22283, 180, -53>>, <<3918, 31152, 12243, 180, -53>>, <<4405, 2202, 2181, 180, -53>>, <<4389, 19443, 24862, 179, -53>>,
     <<32652, 20112, 14752, 179, -53>>, <<4143, 7024, 4619, 179, -53>>, <<15132, 15795, 27230, 178, -53>>, <<15664, 16548, 17050, 178, -53>>,
     <<6182, 12211, 6847, 178, -53>>, <<4652, 5750, 29389, 177, -53>>, <<13574, 170, 19140, 177, -53>>, <<19635, 31283, 8867, 177, -53>>,
     <<26012, 3867, 31341, 176, -53>>, <<19022, 19347, 21023, 176, -53>>, <<175, 15346, 10683, 176, -53>>, <<18116, 27828, 320, 176, -53>>,
     <<3827, 27263, 22703, 175, -53>>, <<31692, 16923, 12296, 175, -53>>, <<23382, 123, 1867, 175, -53>>, <<8669, 12981, 24183, 174, -53>>,
     <<25666, 26117, 13709, 174, -53>>, <<20944, 10192, 3214, 174, -53>>, <<11660, 1439, 25465, 173, -53>>, <<18184, 3361, 14926, 173, -53>>,
     <<29373, 19500, 4365, 173, -53>>, <<468, 20669, 26551, 172, -53>>, <<14722, 10483, 15948, 172, -53>>, <<18895, 25367, 5323, 172, -53>>,
     <<17391, 3478, 27446, 171, -53>>, <<4099, 14083, 16779, 171, -53>>, <<25194, 28181, 6091, 171, -53>>, <<12423, 16812, 28151, 170, -53>>,
     <<9475, 16586, 17422, 170, -53>>, <<5000, 31384, 6672, 170, -53>>, <<27655, 32355, 28670, 169, -53>>, <<11619, 23456, 17880, 169, -53>>,
     <<22447, 8677, 7070, 169, -53>>, <<24018, 24816, 29007, 168, -53>>, <<5814, 10403, 18157, 168, -53>>, <<11754, 2307, 7287, 168, -53>>,
     <<5057, 4668, 29165, 167, -53>>, <<27882, 21660, 18255, 167, -53>>, <<386, 24729, 7326, 167, -53>>, <<11174, 18120, 29146, 166, -53>>,
     <<17785, 6118, 18179, 166, -53>>, <<5794, 25811, 7192, 166, -53>>, <<16720, 16017, 28955, 165, -53>>, <<11944, 13896, 17931, 165, -53>>,
     <<31423, 23873, 6888, 165, -53>>, <<24571, 17643, 28595, 164, -53>>, <<8706, 32470, 17515, 164, -53>>, <<30740, 7348, 6418, 164, -53>>,
     <<30436, 12381, 28070, 163, -53>>, <<31219, 19401, 16936, 163, -53>>, <<3162, 276, 5785, 163, -53>>, <<20762, 25209, 27383, 162, -53>>,
     <<27359, 601, 16197, 162, -53>>, <<25411, 29493, 4992, 162, -53>>, <<4488, 18352, 26539, 161, -53>>, <<219, 4749, 15301, 161, -53>>,
     <<22018, 26289, 4045, 161, -53>>, <<13457, 22308, 25541, 160, -53>>, <<9117, 30476, 14252, 160, -53>>, <<29158, 22960, 2947, 160, -53>>,
     <<6536, 4730, 24394, 159, -53>>, <<8992, 13552, 13056, 159, -53>>, <<2169, 21691, 1702, 159, -53>>, <<5812, 1442, 23101, 158, -53>>,
     <<20464, 23436, 11715, 158, -53>>, <<19574, 27264, 314, 158, -53>>, <<7008, 18083, 21666, 157, -53>>, <<8903, 1080, 10235, 157, -53>>,
     <<32628, 14241, 31556, 156, -53>>, <<25614, 30048, 20094, 156, -53>>, <<30676, 21010, 8618, 156, -53>>, <<13521, 25204, 29895, 155, -53>>,
     <<17825, 15198, 18390, 155, -53>>, <<25270, 29127, 6870, 155, -53>>, <<12064, 6851, 28105, 154, -53>>, <<5345, 19329, 16557, 154, -53>>,
     <<8399, 6477, 4996, 154, -53>>, <<24051, 6543, 26189, 153, -53>>, <<12412, 25036, 14600, 153, -53>>, <<12342, 1954, 2999, 153, -53>>,
     <<662, 8396, 24152, 152, -53>>, <<13385, 17182, 12524, 152, -53>>, <<4698, 1161, 884, 152, -53>>, <<734, 31510, 21998, 151, -53>>,
     <<23865, 15592, 10333, 151, -53>>, <<16880, 24638, 31423, 150, -53>>, <<29191, 31597, 19733, 150, -53>>, <<9731, 9446, 8032, 150, -53>>,
     <<25710, 29487, 29086, 149, -53>>, <<22523, 31978, 17361, 149, -53>>, <<9537, 22735, 5625, 149, -53>>, <<16392, 7597, 26646, 148, -53>>,
     <<16438, 25196, 14887, 148, -53>>, <<13907, 15882, 3118, 148, -53>>, <<32681, 18331, 24106, 147, -53>>, <<6658, 5708, 12316, 147, -53>>,
     <<30466, 16731, 515, 147, -53>>, <<20263, 24609, 21472, 146, -53>>, <<29793, 2568, 9652, 146, -53>>, <<9305, 22162, 30589, 145, -53>>,
     <<23116, 23890, 18749, 145, -53>>, <<8345, 13811, 6900, 145, -53>>, <<25073, 30768, 27809, 144, -53>>, <<14893, 15323, 15942, 144, -53>>,
     <<18132, 6358, 4066, 144, -53>>, <<30532, 10007, 24949, 143, -53>>, <<23694, 32423, 13055, 143, -53>>, <<30977, 14239, 1154, 143, -53>>,
     <<3936, 27180, 22012, 142, -53>>, <<29133, 11912, 10095, 142, -53>>, <<20584, 7427, 30938, 141, -53>>, <<1954, 19962, 19005, 141, -53>>,
     <<28226, 23001, 7065, 141, -53>>, <<9002, 22816, 27886, 140, -53>>, <<23250, 25689, 15932, 140, -53>>, <<11387, 5153, 3972, 140, -53>>,
     <<24358, 288, 24773, 139, -53>>, <<13896, 17423, 12799, 139, -53>>, <<15928, 30130, 819, 139, -53>>, <<6248, 11996, 21602, 138, -53>>,
     <<18273, 2155, 9611, 138, -53>>, <<31361, 6987, 30382, 137, -53>>, <<22913, 116, 18380, 137, -53>>, <<20425, 20712, 6372, 137, -53>>,
     <<22414, 9653, 27128, 136, -53>>, <<17593, 6132, 15111, 136, -53>>, <<4003, 16584, 3089, 136, -53>>, <<8094, 14685, 23831, 135, -53>>,
     <<5457, 6890, 11801, 135, -53>>, <<5361, 32430, 32534, 134, -53>>, <<4157, 32241, 20496, 134, -53>>, <<4206, 12803, 8455, 134, -53>>,
     <<32741, 13371, 29178, 133, -53>>, <<29645, 7674, 17130, 133, -53>>, <<30093, 2213, 5079, 133, -53>>, <<19486, 3497, 25793, 132, -53>>,
     <<17735, 18040, 13736, 132, -53>>, <<32440, 19594, 1677, 132, -53>>, <<12045, 14686, 22384, 131, -53>>, <<28343, 9844, 10321, 131, -53>>,
     <<218, 11605, 31024, 130, -53>>, <<7170, 26505, 18957, 130, -53>>, <<13020, 28319, 6889, 130, -53>>, <<15568, 23592, 27588, 129, -53>>,
     <<32406, 18871, 15518, 129, -53>>, <<21177, 20707, 3447, 129, -53>>, <<29201, 2882, 24144, 128, -53>>, <<15418, 4718, 12072, 128, -53>>,
     <<0, 0, 0, 128, -53>>, <<1930, 23331, 8623, 255, -54>>, <<7135, 27002, 17247, 254, -54>>, <<23183, 24120, 25872, 253, -54>>,
     <<723, 27792, 1730, 253, -54>>, <<1632, 18351, 10358, 252, -54>>, <<6729, 8897, 18988, 251, -54>>, <<18428, 12525, 27620, 250, -54>>,
     <<32332, 9557, 3487, 250, -54>>, <<8849, 13078, 12125, 249, -54>>, <<8679, 3395, 20767, 248, -54>>, <<654, 26346, 29412, 247, -54>>,
     <<30066, 29454, 5294, 247, -54>>, <<26564, 25772, 13949, 246, -54>>, <<5351, 28340, 22609, 245, -54>>, <<6247, 17418, 31275, 244, -54>>,
     <<54, 6024, 7179, 244, -54>>, <<24358, 7161, 15857, 243, -54>>, <<24453, 1053, 24542, 242, -54>>, <<22048, 675, 466, 242, -54>>,
     <<21854, 18987, 9165, 241, -54>>, <<16581, 3397, 17873, 240, -54>>, <<24763, 32367, 26588, 239, -54>>, <<30351, 20502, 2545, 239, -54>>,
     <<20707, 13460, 11279, 238, -54>>, <<24685, 24110, 20022, 237, -54>>, <<19709, 32534, 28775, 236, -54>>, <<2814, 18792, 4771, 236, -54>>,
     <<28989, 28456, 13545, 235, -54>>, <<20271, 8775, 22331, 234, -54>>, <<914, 5275, 31128, 233, -54>>, <<4977, 30689, 7168, 233, -54>>,
     <<16820, 32190, 15989, 232, -54>>, <<9995, 22461, 24823, 231, -54>>, <<19038, 14156, 902, 231, -54>>, <<14763, 19903, 9762, 230, -54>>,
     <<9084, 19532, 18636, 229, -54>>, <<28860, 25611, 27524, 228, -54>>, <<24366, 17912, 3659, 228, -54>>, <<7270, 8942, 12577, 227, -54>>,
     <<24896, 11175, 21510, 226, -54>>, <<3581, 4288, 30459, 225, -54>>, <<18148, 688, 6656, 225, -54>>, <<4473, 12752, 15637, 224, -54>>,
     <<29271, 20050, 24635, 223, -54>>, <<2983, 2121, 883, 223, -54>>, <<15392, 3998, 9916, 222, -54>>, <<16078, 5145, 18967, 221, -54>>,
     <<19305, 17754, 28036, 220, -54>>, <<14158, 21211, 4356, 220, -54>>, <<5950, 27630, 13463, 219, -54>>, <<25012, 16316, 22590, 218, -54>>,
     <<4606, 32072, 31736, 217, -54>>, <<19453, 21351, 8135, 217, -54>>, <<173, 28872, 17322, 216, -54>>, <<4954, 1003, 26531, 215, -54>>,
     <<32661, 15142, 2992, 215, -54>>, <<32753, 17572, 12243, 214, -54>>, <<13694, 20065, 21516, 213, -54>>, <<20490, 1578, 30812, 212, -54>>,
     <<14116, 6560, 7362, 212, -54>>, <<13306, 13875, 16703, 211, -54>>, <<7153, 2340, 26068, 210, -54>>, <<31777, 16258, 2688, 210, -54>>,
     <<17805, 1582, 12101, 209, -54>>, <<31300, 2515, 21538, 208, -54>>, <<23373, 30445, 30999, 207, -54>>, <<5998, 31171, 7718, 207, -54>>,
     <<31445, 15975, 17231, 206, -54>>, <<8084, 28859, 26769, 205, -54>>, <<7944, 15463, 3566, 205, -54>>, <<17433, 19680, 13157, 204, -54>>,
     <<15969, 19813, 22775, 203, -54>>, <<22078, 26877, 32420, 202, -54>>, <<8642, 19065, 9325, 202, -54>>, <<14994, 7280, 19026, 201, -54>>,
     <<29884, 2370, 28755, 200, -54>>, <<5727, 15127, 5744, 200, -54>>, <<4186, 23514, 15530, 199, -54>>, <<14308, 5438, 25346, 198, -54>>,
     <<280, 4284, 2423, 198, -54>>, <<14962, 30607, 12297, 197, -54>>, <<18753, 29369, 22202, 196, -54>>, <<26387, 11006, 32138, 195, -54>>,
     <<24607, 18662, 9336, 195, -54>>, <<21144, 29883, 19333, 194, -54>>, <<28429, 22153, 29362, 193, -54>>, <<14784, 5663, 6655, 193, -54>>,
     <<19696, 23307, 16747, 192, -54>>, <<7219, 19614, 26872, 191, -54>>, <<14535, 4583, 4262, 191, -54>>, <<5853, 20919, 14452, 190, -54>>,
     <<21500, 12956, 24676, 189, -54>>, <<32328, 23269, 2165, 189, -54>>, <<23791, 28831, 12456, 188, -54>>, <<14715, 6548, 22782, 187, -54>>,
     <<10817, 31564, 373, 187, -54>>, <<24010, 15116, 10768, 186, -54>>, <<26443, 32215, 21197, 185, -54>>, <<3099, 26732, 31662, 184, -54>>,
     <<4665, 8004, 9395, 184, -54>>, <<4057, 18070, 19931, 183, -54>>, <<15355, 595, 30504, 182, -54>>, <<16393, 30248, 8344, 182, -54>>,
     <<2692, 17788, 18990, 181, -54>>, <<8879, 4975, 29673, 180, -54>>, <<32096, 732, 7625, 180, -54>>, <<21178, 13913, 18382, 179, -54>>,
     <<29966, 20530, 29177, 178, -54>>, <<10418, 29295, 7242, 178, -54>>, <<31997, 16077, 18114, 177, -54>>, <<9773, 22214, 29024, 176, -54>>,
     <<22655, 23431, 7205, 176, -54>>, <<9261, 28153, 18193, 175, -54>>, <<21140, 11961, 29221, 174, -54>>, <<17501, 15902, 7520, 174, -54>>,
     <<20642, 15412, 18627, 173, -54>>, <<9530, 18623, 29774, 172, -54>>, <<10227, 824, 8194, 172, -54>>, <<22768, 2767, 19422, 171, -54>>,
     <<13819, 32363, 30690, 170, -54>>, <<7921, 31911, 9232, 170, -54>>, <<15148, 9172, 20584, 169, -54>>, <<24571, 4601, 31977, 168, -54>>,
     <<30755, 25810, 10643, 168, -54>>, <<27744, 14800, 22120, 167, -54>>, <<3324, 11801, 871, 167, -54>>, <<31832, 24197, 12432, 166, -54>>,
     <<6791, 26534, 24036, 165, -54>>, <<29168, 26044, 2915, 165, -54>>, <<9449, 29889, 14605, 164, -54>>, <<23648, 12382, 26339, 163, -54>>,
     <<14203, 13300, 5348, 163, -54>>, <<15430, 6805, 17169, 162, -54>>, <<18772, 32520, 29033, 161, -54>>, <<2152, 31688, 8174, 161, -54>>,
     <<25114, 11009, 20128, 160, -54>>, <<29304, 9878, 32126, 159, -54>>, <<32419, 2075, 11401, 159, -54>>, <<27493, 26840, 23488, 158, -54>>,
     <<13512, 25032, 2853, 158, -54>>, <<26266, 2968, 15032, 157, -54>>, <<5619, 32427, 27255, 156, -54>>, <<23462, 21267, 6757, 156, -54>>,
     <<20403, 8345, 19073, 155, -54>>, <<1439, 32439, 31434, 154, -54>>, <<2505, 1177, 11075, 154, -54>>, <<24483, 18719, 23529, 153, -54>>,
     <<233, 25310, 3262, 153, -54>>, <<23992, 26649, 15810, 152, -54>>, <<23958, 28363, 28405, 151, -54>>, <<24933, 3231, 8280, 151, -54>>,
     <<17982, 22260, 20969, 150, -54>>, <<26929, 25307, 938, 150, -54>>, <<11244, 17690, 13723, 149, -54>>, <<31302, 4647, 26556, 148, -54>>,
     <<20651, 24111, 6668, 148, -54>>, <<17258, 15631, 19597, 147, -54>>, <<1755, 16985, 32574, 146, -54>>, <<30831, 336, 12832, 146, -54>>,
     <<10380, 3311, 25906, 145, -54>>, <<25931, 30687, 6260, 145, -54>>, <<17931, 21633, 19432, 144, -54>>, <<14299, 13543, 32653, 143, -54>>,
     <<2739, 10968, 13155, 143, -54>>, <<32642, 18381, 26474, 142, -54>>, <<22285, 7415, 7075, 142, -54>>, <<24986, 15159, 20493, 141, -54>>,
     <<3939, 13093, 1193, 141, -54>>, <<473, 5387, 14711, 140, -54>>, <<7596, 28905, 28278, 139, -54>>, <<7576, 22132, 9128, 139, -54>>,
     <<9718, 21781, 22796, 138, -54>>, <<22798, 31722, 3746, 138, -54>>, <<27693, 22983, 17515, 137, -54>>, <<15726, 32053, 31334, 136, -54>>,
     <<27215, 29809, 12436, 136, -54>>, <<26345, 19824, 26357, 135, -54>>, <<5624, 5596, 7561, 135, -54>>, <<24959, 23315, 21583, 134, -54>>,
     <<21558, 10797, 2889, 134, -54>>, <<13203, 4086, 17014, 133, -54>>, <<6807, 6385, 31190, 132, -54>>, <<5426, 20824, 12649, 132, -54>>,
     <<15455, 17692, 26928, 131, -54>>, <<21223, 32742, 8490, 131, -54>>, <<25280, 3350, 22873, 130, -54>>, <<23323, 30660, 4538, 130, -54>>,
     <<12043, 19136, 19024, 129, -54>>, <<29902, 4241, 794, 129, -54>>, <<1459, 21370, 15383, 128, -54>>, <<15665, 15076, 27282, 255, -55>>,
     <<518, 28762, 23901, 254, -55>>, <<10654, 23084, 20625, 253, -55>>, <<5335, 2726, 17454, 252, -55>>, <<31588, 4997, 14387, 251, -55>>,
     <<12929, 1534, 11425, 250, -55>>, <<29920, 29366, 8567, 249, -55>>, <<11145, 27084, 5815, 248, -55>>, <<14311, 31441, 3168, 247, -55>>,
     <<16074, 13519, 627, 246, -55>>, <<29831, 9798, 30959, 244, -55>>, <<27128, 23855, 28628, 243, -55>>, <<23209, 26362, 26403, 242, -55>>,
     <<31699, 20624, 24284, 241, -55>>, <<19560, 9813, 22271, 240, -55>>, <<26106, 29733, 20363, 239, -55>>, <<20136, 17753, 18562, 238, -55>>,
     <<19404, 9412, 16867, 237, -55>>, <<13760, 7350, 15278, 236, -55>>, <<19520, 14075, 13795, 235, -55>>, <<3049, 31966, 12418, 234, -55>>,
     <<1107, 30502, 11148, 233, -55>>, <<12073, 11802, 9985, 232, -55>>, <<18404, 10625, 8928, 231, -55>>, <<9332, 28834, 7977, 230, -55>>,
     <<3725, 2628, 7134, 229, -55>>, <<7619, 31920, 6396, 228, -55>>, <<4701, 19890, 5766, 227, -55>>, <<12512, 664, 5243, 226, -55>>,
     <<7734, 8245, 4826, 225, -55>>, <<15534, 10975, 4516, 224, -55>>, <<2411, 9843, 4313, 223, -55>>, <<31408, 5713, 4217, 222, -55>>,
     <<24219, 32100, 4227, 221, -55>>, <<15007, 24091, 4345, 220, -55>>, <<11133, 14958, 4570, 219, -55>>, <<17881, 5086, 4902, 218, -55>>,
     <<30565, 27510, 5340, 217, -55>>, <<26756, 16844, 5886, 216, -55>>, <<24193, 5888, 6539, 215, -55>>, <<7739, 27327, 7298, 214, -55>>,
     <<20330, 15425, 8165, 213, -55>>, <<24617, 2638, 9139, 212, -55>>, <<26937, 21307, 10219, 211, -55>>, <<4718, 5357, 11407, 210, -55>>,
     <<30662, 19670, 12701, 209, -55>>, <<3771, 30718, 14102, 208, -55>>, <<3105, 4857, 15611, 207, -55>>, <<18993, 6640, 17226, 206, -55>>,
     <<12084, 2208, 18948, 205, -55>>, <<5187, 23128, 20776, 204, -55>>, <<11406, 2556, 22712, 203, -55>>, <<27861, 4614, 24754, 202, -55>>,
     <<29508, 27783, 26902, 201, -55>>, <<28545, 4902, 29158, 200, -55>>, <<2837, 32547, 31519, 199, -55>>, <<20999, 10580, 1220, 199, -55>>,
     <<7103, 2605, 3795, 198, -55>>, <<29722, 6584, 6476, 197, -55>>, <<1214, 20383, 9263, 196, -55>>, <<32403, 8994, 12157, 195, -55>>,
     <<887, 2853, 15157, 194, -55>>, <<4132, 32291, 18262, 193, -55>>, <<26140, 29241, 21474, 192, -55>>, <<30185, 23844, 24792, 191, -55>>,
     <<18768, 13376, 28216, 190, -55>>, <<28106, 27785, 31745, 189, -55>>, <<24305, 31391, 2612, 189, -55>>, <<28965, 21187, 6353, 188, -55>>,
     <<15398, 26843, 10199, 187, -55>>, <<1504, 12400, 14151, 186, -55>>, <<11546, 7344, 18208, 185, -55>>, <<5206, 8305, 22370, 184, -55>>,
     <<3226, 11822, 26637, 183, -55>>, <<16465, 14346, 31009, 182, -55>>, <<7702, 12242, 2718, 182, -55>>, <<17299, 1786, 7300, 181, -55>>,
     <<26695, 11938, 11986, 180, -55>>, <<18509, 6037, 16777, 179, -55>>, <<3852, 12873, 21672, 178, -55>>, <<16875, 28384, 26671, 177, -55>>,
     <<10967, 15660, 31775, 176, -55>>, <<17104, 3243, 4215, 176, -55>>, <<7237, 19596, 9526, 175, -55>>, <<19820, 27564, 14941, 174, -55>>,
     <<23139, 22683, 20460, 173, -55>>, <<8011, 410, 26083, 172, -55>>, <<14890, 21659, 31808, 171, -55>>, <<29874, 16197, 4869, 171, -55>>,
     <<11749, 12020, 10801, 170, -55>>, <<17270, 4278, 16836, 169, -55>>, <<31518, 20817, 22973, 168, -55>>, <<27553, 23874, 29213, 167, -55>>,
     <<26041, 8380, 2788, 167, -55>>, <<23739, 1963, 9233, 166, -55>>, <<20240, 32180, 15779, 165, -55>>, <<11877, 28214, 22428, 164, -55>>,
     <<18361, 17482, 29179, 163, -55>>, <<11016, 27334, 3263, 163, -55>>, <<4827, 19515, 10217, 162, -55>>, <<19319, 21239, 17272, 161, -55>>,
     <<6618, 26888, 24428, 160, -55>>, <<8803, 30776, 31685, 159, -55>>, <<20285, 27154, 6275, 159, -55>>, <<13939, 10210, 13734, 158, -55>>,
     <<32705, 6835, 21293, 157, -55>>, <<18953, 11093, 28952, 156, -55>>, <<4226, 16984, 3943, 156, -55>>, <<3979, 18448, 11802, 155, -55>>,
     <<10544, 9366, 19761, 154, -55>>, <<18772, 16328, 27819, 153, -55>>, <<18807, 330, 3209, 153, -55>>, <<21564, 20614, 11465, 152, -55>>,
     <<18546, 5294, 19821, 151, -55>>, <<7133, 13500, 28275, 150, -55>>, <<15744, 6002, 4060, 150, -55>>, <<30627, 9053, 12711, 149, -55>>,
     <<20832, 16085, 21460, 148, -55>>, <<28630, 20475, 30307, 147, -55>>, <<30447, 15550, 6484, 147, -55>>, <<27078, 27353, 15526, 146, -55>>,
     <<2712, 16341, 24666, 145, -55>>, <<14935, 8455, 1135, 145, -55>>, <<22468, 29590, 10468, 144, -55>>, <<7719, 7288, 19899, 143, -55>>,
     <<908, 114, 29426, 142, -55>>, <<5787, 1051, 6281, 142, -55>>, <<23535, 3036, 16000, 141, -55>>, <<11027, 31730, 25814, 140, -55>>,
     <<2796, 14443, 2957, 140, -55>>, <<3526, 9514, 12963, 139, -55>>, <<11485, 9703, 23064, 138, -55>>, <<9076, 7728, 492, 138, -55>>,
     <<18800, 29032, 10782, 137, -55>>, <<28029, 714, 21168, 136, -55>>, <<11955, 13673, 31647, 135, -55>>, <<21953, 27694, 9452, 135, -55>>,
     <<11682, 2526, 20120, 134, -55>>, <<23492, 28949, 30880, 133, -55>>, <<14275, 1100, 8967, 133, -55>>, <<8852, 9685, 19914, 132, -55>>,
     <<23870, 14302, 30954, 131, -55>>, <<24321, 7283, 9319, 131, -55>>, <<11023, 13692, 20544, 130, -55>>, <<9645, 25790, 31861, 129, -55>>,
     <<26851, 3037, 10503, 129, -55>>, <<6295, 3166, 22004, 128, -55>>, <<13876, 18338, 828, 128, -55>>, <<26480, 15835, 25024, 254, -56>>,
     <<3234, 26314, 15805, 253, -56>>, <<28854, 19483, 6768, 252, -56>>, <<30174, 12193, 30680, 250, -56>>, <<28073, 21234, 22004, 249, -56>>,
     <<14846, 30572, 13508, 248, -56>>, <<27854, 24116, 5192, 247, -56>>, <<26356, 18491, 29823, 245, -56>>, <<30149, 30267, 21864, 244, -56>>,
     <<28605, 10427, 14084, 243, -56>>, <<20449, 8207, 6481, 242, -56>>, <<20553, 7257, 31823, 240, -56>>, <<856, 23948, 24573, 239, -56>>,
     <<27647, 9065, 17500, 238, -56>>, <<5340, 11656, 10602, 237, -56>>, <<9791, 15183, 3879, 236, -56>>, <<31519, 3067, 30099, 234, -56>>,
     <<13533, 24224, 23724, 233, -56>>, <<19982, 29221, 17523, 232, -56>>, <<11271, 1356, 11496, 231, -56>>, <<12140, 22190, 5640, 230, -56>>,
     <<17290, 9407, 32725, 228, -56>>, <<27817, 11726, 27213, 227, -56>>, <<21806, 12295, 21872, 226, -56>>, <<22966, 26994, 16701, 225, -56>>,
     <<5119, 6135, 11701, 224, -56>>, <<25802, 31067, 6869, 223, -56>>, <<31874, 19271, 2207, 222, -56>>, <<25325, 19268, 30481, 220, -56>>,
     <<32153, 14013, 26155, 219, -56>>, <<5451, 19203, 21996, 218, -56>>, <<23097, 17736, 18004, 217, -56>>, <<26427, 25256, 14178, 216, -56>>,
     <<17362, 24612, 10518, 215, -56>>, <<25883, 31396, 7023, 214, -56>>, <<11670, 28411, 3693, 213, -56>>, <<27628, 31203, 527, 212, -56>>,
     <<22658, 22532, 30293, 210, -56>>, <<4592, 17904, 27454, 209, -56>>, <<6263, 37, 24778, 208, -56>>, <<18490, 17168, 22263, 207, -56>>,
     <<21112, 19213, 19910, 206, -56>>, <<13715, 21607, 17718, 205, -56>>, <<13341, 7001, 15687, 204, -56>>, <<19116, 23568, 13815, 203, -56>>,
     <<9384, 21164, 12103, 202, -56>>, <<4093, 15167, 10550, 201, -56>>, <<28599, 20943, 9155, 200, -56>>, <<11650, 21082, 7918, 199, -56>>,
     <<10778, 30928, 6838, 198, -56>>, <<11424, 282, 5916, 197, -56>>, <<20707, 10008, 5149, 196, -56>>, <<29825, 9891, 4538, 195, -56>>,
     <<8987, 15246, 4082, 194, -56>>, <<317, 8612, 3781, 193, -56>>, <<13940, 5292, 3634, 192, -56>>, <<22047, 20586, 3640, 191, -56>>,
     <<18257, 4254, 3800, 190, -56>>, <<11149, 4357, 4112, 189, -56>>, <<17543, 3418, 4576, 188, -56>>, <<22725, 16728, 5191, 187, -56>>,
     <<5958, 26810, 5957, 186, -56>>, <<31243, 16185, 6874, 185, -56>>, <<10148, 148, 7941, 184, -56>>, <<21408, 26759, 9156, 183, -56>>,
     <<7708, 13013, 10521, 182, -56>>, <<29198, 6977, 12034, 181, -56>>, <<25277, 23958, 13694, 180, -56>>, <<2076, 13730, 15502, 179, -56>>,
     <<23085, 24375, 17456, 178, -56>>, <<2884, 5682, 19557, 177, -56>>, <<24938, 5746, 21803, 176, -56>>, <<3754, 7139, 24194, 175, -56>>,
     <<2158, 25205, 26729, 174, -56>>, <<24000, 9763, 29409, 173, -56>>, <<3239, 8948, 32232, 172, -56>>, <<22147, 5365, 2430, 172, -56>>,
     <<4967, 14403, 5538, 171, -56>>, <<1142, 18691, 8788, 170, -56>>, <<9550, 872, 12180, 169, -56>>, <<31863, 9138, 15712, 168, -56>>,
     <<27364, 26160, 19384, 167, -56>>, <<31338, 1853, 23197, 166, -56>>, <<11092, 17221, 27148, 165, -56>>, <<16640, 22209, 31238, 164, -56>>,
     <<3472, 32317, 2698, 164, -56>>, <<15507, 30291, 7064, 163, -56>>, <<7388, 31665, 11567, 162, -56>>, <<26972, 19220, 16207, 161, -56>>,
     <<4363, 8527, 20983, 160, -56>>, <<32250, 15171, 25894, 159, -56>>, <<23388, 21994, 30940, 158, -56>>, <<23236, 11854, 3353, 158, -56>>,
     <<30823, 399, 8668, 157, -56>>, <<16013, 3299, 14116, 156, -56>>, <<2049, 3476, 19697, 155, -56>>, <<16821, 16642, 25410, 154, -56>>,
     <<11131, 25766, 31255, 153, -56>>, <<6119, 13838, 4464, 153, -56>>, <<11068, 29408, 10571, 152, -56>>, <<6548, 22747, 16809, 151, -56>>,
     <<25625, 9685, 23177, 150, -56>>, <<5497, 6080, 29674, 149, -56>>, <<32097, 27811, 3531, 149, -56>>, <<27456, 25252, 10285, 148, -56>>,
     <<26648, 14336, 17167, 147, -56>>, <<28570, 11024, 24176, 146, -56>>, <<10312, 31305, 31311, 145, -56>>, <<6880, 25658, 5805, 145, -56>>,
     <<26860, 10127, 13193, 144, -56>>, <<653, 787, 20706, 143, -56>>, <<23395, 13737, 28343, 142, -56>>, <<7866, 32343, 3336, 142, -56>>,
     <<25322, 7228, 11222, 141, -56>>, <<23522, 20121, 19230, 140, -56>>, <<3330, 21708, 27361, 139, -56>>, <<31243, 28240, 2846, 139, -56>>,
     <<22381, 23236, 11221, 138, -56>>, <<14778, 23011, 19717, 137, -56>>, <<17512, 11145, 28334, 136, -56>>, <<22458, 4019, 4303, 136, -56>>,
     <<15876, 18047, 13159, 135, -56>>, <<22558, 4139, 22135, 134, -56>>, <<18728, 11544, 31229, 133, -56>>, <<8583, 24008, 7673, 133, -56>>,
     <<2349, 25311, 17003, 132, -56>>, <<26921, 32035, 26450, 131, -56>>, <<5261, 28032, 3246, 131, -56>>, <<28797, 29952, 12926, 130, -56>>,
     <<7086, 21718, 22722, 129, -56>>, <<5407, 20052, 32633, 128, -56>>, <<25132, 8946, 9891, 128, -56>>, <<26558, 10396, 7294, 255, -57>>,
     <<5974, 18512, 27801, 253, -57>>, <<16073, 10443, 15767, 252, -57>>, <<31062, 20004, 3958, 251, -57>>, <<22267, 15549, 25142, 249, -57>>,
     <<8355, 31042, 13781, 248, -57>>, <<6873, 2219, 2644, 247, -57>>, <<18229, 28733, 24495, 245, -57>>, <<9369, 13707, 13800, 244, -57>>,
     <<28150, 24179, 3324, 243, -57>>, <<22536, 28964, 25835, 241, -57>>, <<19884, 29721, 15796, 240, -57>>, <<11028, 28189, 5974, 239, -57>>,
     <<30621, 26185, 29136, 237, -57>>, <<7828, 25609, 19745, 236, -57>>, <<9903, 28437, 10568, 235, -57>>, <<26730, 3960, 1605, 234, -57>>,
     <<17170, 19855, 25621, 232, -57>>, <<20680, 12806, 17081, 231, -57>>, <<6467, 17885, 8751, 230, -57>>, <<17287, 4708, 631, 229, -57>>,
     <<17996, 8512, 25487, 227, -57>>, <<6002, 31848, 17782, 226, -57>>, <<23093, 11813, 10285, 225, -57>>, <<3175, 16663, 2993, 224, -57>>,
     <<12906, 16430, 28674, 222, -57>>, <<557, 14002, 21791, 221, -57>>, <<3349, 12349, 15111, 220, -57>>, <<26839, 14527, 8633, 219, -57>>,
     <<22313, 23679, 2356, 218, -57>>, <<27789, 10263, 29048, 216, -57>>, <<13823, 10361, 23171, 215, -57>>, <<23962, 27371, 17492, 214, -57>>,
     <<20051, 32012, 12011, 213, -57>>, <<22149, 27856, 6727, 212, -57>>, <<18860, 18563, 1639, 211, -57>>, <<8462, 7880, 29514, 209, -57>>,
     <<7030, 32409, 24814, 208, -57>>, <<23522, 30536, 20308, 207, -57>>, <<1881, 6273, 15995, 206, -57>>, <<25022, 29252, 11872, 205, -57>>,
     <<27076, 5358, 7941, 204, -57>>, <<29658, 4402, 4199, 203, -57>>, <<17482, 30749, 645, 202, -57>>, <<10332, 23316, 30048, 200, -57>>,
     <<3761, 19414, 26870, 199, -57>>, <<7819, 23675, 23878, 198, -57>>, <<20068, 8053, 21072, 197, -57>>, <<31120, 10128, 18450, 196, -57>>,
     <<29962, 2034, 16012, 195, -57>>, <<9061, 21531, 13756, 194, -57>>, <<2023, 8164, 11683, 193, -57>>, <<22738, 32641, 9790, 192, -57>>,
     <<4325, 1923, 8079, 191, -57>>, <<32756, 19665, 6546, 190, -57>>, <<23242, 25778, 5192, 189, -57>>, <<19003, 25796, 4016, 188, -57>>,
     <<31079, 25345, 3017, 187, -57>>, <<9029, 30144, 2194, 186, -57>>, <<8022, 13232, 1547, 185, -57>>, <<28070, 13277, 1074, 184, -57>>,
     <<16904, 3504, 775, 183, -57>>, <<3745, 22763, 648, 182, -57>>, <<3485, 11692, 694, 181, -57>>, <<19015, 9325, 911, 180, -57>>,
     <<10586, 22021, 1298, 179, -57>>, <<28850, 23460, 1855, 178, -57>>, <<20005, 20185, 2581, 177, -57>>, <<24025, 18828, 3475, 176, -57>>,
     <<12231, 26115, 4536, 175, -57>>, <<19641, 16094, 5764, 174, -57>>, <<14959, 28443, 7157, 173, -57>>, <<32577, 4626, 8716, 172, -57>>,
     <<9492, 17274, 10438, 171, -57>>, <<15271, 8034, 12324, 170, -57>>, <<23100, 16952, 14372, 169, -57>>, <<8358, 18630, 16582, 168, -57>>,
     <<14269, 20528, 18953, 167, -57>>, <<20791, 30200, 21484, 166, -57>>, <<9951, 22524, 24175, 165, -57>>, <<31032, 5236, 27025, 164, -57>>,
     <<3479, 18936, 30032, 163, -57>>, <<11157, 6007, 429, 163, -57>>, <<6664, 7232, 3750, 162, -57>>, <<6995, 30716, 7226, 161, -57>>,
     <<26937, 19120, 10858, 160, -57>>, <<12321, 13503, 14644, 159, -57>>, <<2517, 22245, 18583, 158, -57>>, <<30635, 21050, 22675, 157, -57>>,
     <<23600, 18485, 26919, 156, -57>>, <<29782, 23205, 31314, 155, -57>>, <<20510, 11191, 3092, 155, -57>>, <<19114, 24050, 7787, 154, -57>>,
     <<500, 5178, 12632, 153, -57>>, <<19947, 29132, 17624, 152, -57>>, <<14128, 6724, 22765, 151, -57>>, <<27958, 12694, 28052, 150, -57>>,
     <<15373, 23572, 717, 150, -57>>, <<413, 15977, 6296, 149, -57>>, <<8839, 32155, 12019, 148, -57>>, <<32371, 16140, 17887, 147, -57>>,
     <<25607, 10362, 23898, 146, -57>>, <<1122, 24572, 30051, 145, -57>>, <<26166, 3074, 3579, 145, -57>>, <<22620, 21339, 10015, 144, -57>>,
     <<25628, 23853, 16592, 143, -57>>, <<16122, 20730, 23309, 142, -57>>, <<15388, 22173, 30165, 141, -57>>, <<15705, 5708, 4392, 141, -57>>,
     <<9166, 14487, 11524, 140, -57>>, <<16414, 26215, 18793, 139, -57>>, <<16977, 18688, 26199, 138, -57>>, <<10583, 2559, 973, 138, -57>>,
     <<12822, 21338, 8649, 137, -57>>, <<17980, 20321, 16460, 136, -57>>, <<27291, 10429, 24405, 135, -57>>, <<11587, 2673, 32483, 134, -57>>,
     <<4908, 8151, 7925, 134, -57>>, <<1430, 5283, 16267, 133, -57>>, <<16149, 5345, 24740, 132, -57>>, <<14412, 19703, 575, 132, -57>>,
     <<5189, 27042, 9308, 131, -57>>, <<3207, 6135, 18171, 130, -57>>, <<23766, 1379, 27162, 129, -57>>, <<11953, 24493, 3512, 129, -57>>,
     <<1127, 21745, 12758, 128, -57>>, <<18431, 10054, 11494, 255, -58>>, <<903, 5408, 30491, 253, -58>>, <<21779, 20916, 16970, 252, -58>>,
     <<23394, 15352, 3699, 251, -58>>, <<3512, 13198, 23444, 249, -58>>, <<3785, 6340, 10668, 248, -58>>, <<32525, 19606, 30905, 246, -58>>,
     <<20147, 12463, 18619, 245, -58>>, <<3797, 10083, 6576, 244, -58>>, <<16999, 5042, 27543, 242, -58>>, <<11907, 22858, 15982, 241, -58>>,
     <<10830, 23682, 4661, 240, -58>>, <<28239, 604, 26347, 238, -58>>, <<25439, 12422, 15501, 237, -58>>, <<28959, 19798, 4891, 236, -58>>,
     <<19461, 16333, 27284, 234, -58>>, <<17117, 28564, 17142, 233, -58>>, <<3070, 17662, 7233, 232, -58>>, <<4598, 10501, 30323, 230, -58>>,
     <<16368, 1356, 20875, 229, -58>>, <<19843, 17438, 11655, 228, -58>>, <<2630, 20589, 2663, 227, -58>>, <<10472, 5584, 26666, 225, -58>>,
     <<2554, 135, 18126, 224, -58>>, <<1602, 32118, 9809, 223, -58>>, <<14533, 31271, 1716, 222, -58>>, <<18539, 25802, 26613, 220, -58>>,
     <<12641, 11315, 18963, 219, -58>>, <<3575, 16346, 11532, 218, -58>>, <<24404, 4058, 4320, 217, -58>>, <<21953, 3316, 30093, 215, -58>>,
     <<6320, 10378, 23314, 214, -58>>, <<3694, 21664, 16750, 213, -58>>, <<9082, 989, 10401, 212, -58>>, <<4521, 10634, 4264, 211, -58>>,
     <<9966, 14736, 31107, 209, -58>>, <<3058, 10362, 25393, 208, -58>>, <<2623, 27506, 19888, 207, -58>>, <<21065, 30786, 14592, 206, -58>>,
     <<16681, 17749, 9504, 205, -58>>, <<9760, 18867, 4622, 204, -58>>, <<1984, 32003, 32713, 202, -58>>, <<26875, 22409, 28241, 201, -58>>,
     <<3548, 21034, 23972, 200, -58>>, <<16420, 26211, 19905, 199, -58>>, <<4992, 3666, 16040, 198, -58>>, <<10678, 17582, 12374, 197, -58>>,
     <<30344, 1227, 8908, 196, -58>>, <<875, 19098, 5639, 195, -58>>, <<13058, 4770, 2568, 194, -58>>, <<1134, 23049, 32460, 192, -58>>,
     <<22132, 7819, 29780, 191, -58>>, <<10877, 24193, 27293, 190, -58>>, <<26440, 6361, 25000, 189, -58>>, <<7071, 19741, 22898, 188, -58>>,
     <<16582, 31595, 20987, 187, -58>>, <<31940, 9339, 19267, 186, -58>>, <<25762, 18844, 17735, 185, -58>>, <<15963, 27826, 16391, 184, -58>>,
     <<17090, 4151, 15235, 183, -58>>, <<24396, 14139, 14264, 182, -58>>, <<30644, 25955, 13478, 181, -58>>, <<10090, 7913, 12877, 180, -58>>,
     <<774, 26777, 12458, 179, -58>>, <<22921, 18387, 12222, 178, -58>>, <<30101, 17036, 12167, 177, -58>>, <<24178, 24394, 12292, 176, -58>>,
     <<6413, 9509, 12597, 175, -58>>, <<26845, 7109, 13080, 174, -58>>, <<4279, 19303, 13740, 173, -58>>, <<4983, 15572, 14577, 172, -58>>,
     <<29870, 31079, 15589, 171, -58>>, <<31027, 2828, 16777, 170, -58>>, <<26539, 31804, 18137, 169, -58>>, <<18668, 22527, 19671, 168, -58>>,
     <<10343, 10731, 21377, 167, -58>>, <<21623, 32291, 23253, 166, -58>>, <<7863, 24921, 25300, 165, -58>>, <<7209, 24777, 27516, 164, -58>>,
     <<25968, 2620, 29901, 163, -58>>, <<22265, 27656, 32452, 162, -58>>, <<20757, 5388, 2403, 162, -58>>, <<30746, 5298, 5287, 161, -58>>,
     <<29795, 31471, 8335, 160, -58>>, <<12904, 22593, 11548, 159, -58>>, <<8892, 15790, 14924, 158, -58>>, <<31264, 15557, 18462, 157, -58>>,
     <<29036, 26527, 22161, 156, -58>>, <<1438, 20699, 26021, 155, -58>>, <<14288, 2973, 30041, 154, -58>>, <<19777, 11155, 1451, 154, -58>>,
     <<3912, 17648, 5787, 153, -58>>, <<2906, 27755, 10280, 152, -58>>, <<21260, 14145, 14930, 151, -58>>, <<15399, 15157, 19735, 150, -58>>,
     <<8354, 3724, 24695, 149, -58>>, <<7872, 18447, 29808, 148, -58>>, <<22817, 32522, 2306, 148, -58>>, <<14063, 19277, 7725, 147, -58>>,
     <<9206, 17704, 13295, 146, -58>>, <<20698, 1389, 19016, 145, -58>>, <<29519, 9584, 24886, 144, -58>>, <<1636, 16134, 30905, 143, -58>>,
     <<2759, 27777, 4304, 143, -58>>, <<18214, 18613, 10619, 142, -58>>, <<2195, 28406, 17080, 141, -58>>, <<25338, 31507, 23687, 140, -58>>,
     <<29095, 2397, 30440, 139, -58>>, <<6094, 13985, 4568, 139, -58>>, <<16689, 8231, 11608, 138, -58>>, <<8907, 25527, 18790, 137, -58>>,
     <<31646, 8082, 26115, 136, -58>>, <<21874, 29304, 812, 136, -58>>, <<17864, 31649, 8418, 135, -58>>, <<11973, 23233, 16164, 134, -58>>,
     <<77, 12294, 24049, 133, -58>>, <<30990, 7190, 32072, 132, -58>>, <<26555, 16404, 7464, 132, -58>>, <<27731, 15768, 15761, 131, -58>>,
     <<14722, 14004, 24194, 130, -58>>, <<22027, 19952, 32762, 129, -58>>, <<24153, 9805, 8697, 129, -58>>, <<17947, 25410, 17533, 128, -58>>,
     <<13328, 20856, 20238, 255, -59>>, <<836, 13883, 5674, 254, -59>>, <<597, 15997, 24141, 252, -59>>, <<30535, 13527, 10102, 251, -59>>,
     <<27111, 25805, 29091, 249, -59>>, <<10276, 6856, 15572, 248, -59>>, <<19149, 9239, 2310, 247, -59>>, <<14949, 20209, 22072, 245, -59>>,
     <<13369, 27248, 9321, 244, -59>>, <<20411, 18066, 29592, 242, -59>>, <<1022, 13369, 17347, 241, -59>>, <<11638, 1318, 5353, 240, -59>>,
     <<5126, 3070, 26376, 238, -59>>, <<28988, 7235, 14879, 237, -59>>, <<30392, 2649, 3629, 236, -59>>, <<21748, 11136, 25392, 234, -59>>,
     <<16942, 21973, 14631, 233, -59>>, <<436, 24658, 4113, 232, -59>>, <<27452, 8906, 26605, 230, -59>>, <<29363, 30190, 16568, 229, -59>>,
     <<12327, 13126, 6771, 228, -59>>, <<26654, 13617, 29979, 226, -59>>, <<5105, 22249, 20655, 225, -59>>, <<27313, 29818, 11566, 224, -59>>,
     <<27158, 27338, 2711, 223, -59>>, <<24561, 6033, 26857, 221, -59>>, <<29598, 22875, 18465, 220, -59>>, <<12271, 3976, 10304, 219, -59>>,
     <<3412, 6728, 2371, 218, -59>>, <<31823, 23196, 27433, 216, -59>>, <<28687, 12888, 19954, 215, -59>>, <<27015, 1052, 12700, 214, -59>>,
     <<687, 13144, 5669, 213, -59>>, <<31251, 9286, 31629, 211, -59>>, <<16065, 15346, 25042, 210, -59>>, <<31841, 24622, 18675, 209, -59>>,
     <<10168, 30619, 12527, 208, -59>>, <<2917, 27040, 6597, 207, -59>>, <<21760, 7790, 884, 206, -59>>, <<8805, 32512, 28153, 204, -59>>,
     <<3949, 29973, 22869, 203, -59>>, <<17386, 27443, 17798, 202, -59>>, <<504, 19623, 12939, 201, -59>>, <<13450, 1407, 8291, 200, -59>>,
     <<32351, 655, 3852, 199, -59>>, <<18745, 12654, 32389, 197, -59>>, <<21884, 114, 28366, 196, -59>>, <<18930, 24244, 24548, 195, -59>>,
     <<17417, 15372, 20936, 194, -59>>, <<26709, 2321, 17528, 193, -59>>, <<29551, 14105, 14322, 192, -59>>, <<19210, 14391, 11318, 191, -59>>,
     <<3962, 32570, 8514, 190, -59>>, <<11650, 32684, 5910, 189, -59>>, <<28799, 11731, 3505, 188, -59>>, <<5330, 32432, 1296, 187, -59>>,
     <<23216, 26617, 32052, 185, -59>>, <<6479, 24609, 30235, 184, -59>>, <<21066, 24142, 28612, 183, -59>>, <<17799, 23136, 27182, 182, -59>>,
     <<1340, 19691, 25944, 181, -59>>, <<2686, 12087, 24897, 180, -59>>, <<18942, 31553, 24039, 179, -59>>, <<18758, 11194, 23371, 178, -59>>,
     <<13340, 15364, 22890, 177, -59>>, <<29283, 10290, 22596, 176, -59>>, <<15937, 27914, 22487, 175, -59>>, <<15020, 2047, 22564, 174, -59>>,
     <<2612, 30517, 22823, 173, -59>>, <<26173, 14716, 23266, 172, -59>>, <<13959, 20053, 23890, 171, -59>>, <<10524, 13802, 24695, 170, -59>>,
     <<19063, 28946, 25679, 169, -59>>, <<7719, 336, 26843, 168, -59>>, <<14258, 26831, 28183, 167, -59>>, <<21481, 10853, 29701, 166, -59>>,
     <<29301, 18832, 31394, 165, -59>>, <<28632, 19062, 494, 165, -59>>, <<8125, 12772, 2536, 164, -59>>, <<26539, 1355, 4751, 163, -59>>,
     <<23035, 19141, 7137, 162, -59>>
    >>

ExpectedScore(d) ==
    LET row == ExpectedScoreTable[d + (Len(ExpectedScoreTable) + 1) \div 2]
    IN  [neg |-> FALSE, m |-> SubSeq(row, 1, 4), e |-> row[5]]

\* player 1 updated with the expected score of player 2
new_r1_Swapped(r1_rating, r2_rating, s1) ==
    FRound(FAdd(FromInt(r1_rating),
                FMul(FromInt(K), FSub(FromInt(s1), ExpectedScore(r1_rating - r2_rating)))))

\* round(r1_rating + K * (s1 - e1))
new_r1(r1_rating, r2_rating, s1) ==
    FRound(FAdd(FromInt(r1_rating),
                FMul(FromInt(K), FSub(FromInt(s1), ExpectedScore(r2_rating - r1_rating)))))

\* player 2 updated with player 1's change instead of the opposite one
new_r2_SameSign(r1_rating, r2_rating, s1) ==
    FRound(FAdd(FromInt(r2_rating),
                FMul(FromInt(K), FSub(FromInt(s1), ExpectedScore(r2_rating - r1_rating)))))

\* round(r2_rating + K * ((1-s1) - (1-e1)))
new_r2(r1_rating, r2_rating, s1) ==
    FRound(FAdd(FromInt(r2_rating),
                FMul(FromInt(K),
                     FSub(FromInt(1 - s1),
                          FSub(FromInt(1), ExpectedScore(r2_rating - r1_rating))))))

\* SELECT rating FROM pvp_ratings WHERE player_id = ?, 1200 without a row
RatingOf(player_id) ==
    IF pvp_ratings[player_id] = NoRow THEN DefaultRating ELSE pvp_ratings[player_id].rating

\* INSERT OR REPLACE INTO pvp_ratings (player_id, rating, wins, losses) with
\* COALESCE(wins, 0) + won and COALESCE(losses, 0) + lost
Upsert(table, player_id, rating, won, lost) ==
    [table EXCEPT ![player_id] =
        [player_id |-> player_id, rating |-> rating,
         wins |-> (IF @ = NoRow THEN 0 ELSE @.wins) + won,
         losses |-> (IF @ = NoRow THEN 0 ELSE @.losses) + lost]]

\* the players of the model: two humans and one id of the bot range
PlayerIds == {1001, 1002, 9001}

\* table pvp_battles: battles between the humans, and with the player of
\* the bot range on either side
pvp_battles ==
    {[battle_id |-> 1, player1_id |-> 1001, player2_id |-> 1002],
     [battle_id |-> 2, player1_id |-> 1002, player2_id |-> 1001],
     [battle_id |-> 3, player1_id |-> 1001, player2_id |-> 9001],
     [battle_id |-> 4, player1_id |-> 9001, player2_id |-> 1001]}

\* POST /api/pvp/battle/result with the default scores
submit_battle_result(battle_id, winner_id) ==
    /\ Len(pvp_match_history) < MaxBattles
    /\ \E battle \in {b \in pvp_battles : b.battle_id = battle_id} :
       \E r1_rating \in {RatingOf(battle.player1_id)}, r2_rating \in {RatingOf(battle.player2_id)},
          s1 \in {IF winner_id = battle.player1_id THEN 1 ELSE 0} :
       \E n1 \in {new_r1(r1_rating, r2_rating, s1)}, n2 \in {new_r2(r1_rating, r2_rating, s1)} :
       \E change \in {RankChange(battle.player1_id, r1_rating, n1)} :
          /\ pvp_ratings' =
                LET first == Upsert(pvp_ratings, battle.player1_id, n1, s1, 1 - s1)
                IN  IF battle.player2_id < BotIdFrom
                    THEN Upsert(first, battle.player2_id, n2, 1 - s1, s1)
                    ELSE first
          /\ pvp_match_history' =
                Append(pvp_match_history,
                       [battle_id |-> battle_id, player_id |-> battle.player1_id,
                        opponent_id |-> battle.player2_id,
                        result |-> IF s1 = 1 THEN "win" ELSE "lose",
                        rating_change |-> n1 - r1_rating,
                        player_score |-> 0, opponent_score |-> 0])
          /\ pvp_rank_history' = pvp_rank_history \o change.rows
          /\ returned' = [op |-> "submit_battle_result", player_id |-> battle.player1_id,
                          old_rating |-> r1_rating, new_rating |-> n1,
                          rating_change |-> n1 - r1_rating, rank_change |-> change.value]
    /\ UNCHANGED <<pvp_queue, pvp_bots, pvp_matchmaking_log>>

(***************************************************************************)
(* MatchMaker (src/pvp_system.py)                                          *)
(***************************************************************************)
initial_elo_range == 200

max_elo_range == 500

elo_expand_rate == 50

max_wait_time == 30

\* the bot used when pvp_bots has no active row: bot_id, bot_rating = 9001, 1200
DefaultBot == [bot_id |-> 9001, rating |-> 1200, active |-> 1]

Abs(n) == IF n < 0 THEN -n ELSE n

\* the rows of s that come first under ORDER BY ABS(rating - r) ASC LIMIT 1;
\* the query does not order rows at the same distance
Closest(s, r) == {x \in s : \A y \in s : Abs(x.rating - r) <= Abs(y.rating - r)}

\* the radius without its cap
current_range_Uncapped(wait_seconds) ==
    initial_elo_range + (wait_seconds \div 10) * elo_expand_rate

\* the radius widened every second instead of every 10 seconds
current_range_PerSecond(wait_seconds) ==
    Min(initial_elo_range + wait_seconds * elo_expand_rate, max_elo_range)

\* min(initial_elo_range + int(wait_seconds / 10) * elo_expand_rate, max_elo_range);
\* the clock never runs backwards, so wait_seconds >= 0 and int() is the floor
current_range(wait_seconds) ==
    Min(initial_elo_range + (wait_seconds \div 10) * elo_expand_rate, max_elo_range)

\* MatchMaker._calc_quality
_calc_quality(rating_diff, wait_time, is_bot) ==
    LET base         == FromInt(100)
        elo_penalty  == FMin(FDivInt(FromInt(rating_diff), 10), FromInt(50))
        wait_penalty == FMin(FDivInt(FromInt(wait_time), 2), FromInt(25))
        bot_penalty  == FromInt(IF is_bot THEN 15 ELSE 0)
    IN  FMax(FZero, FSub(FSub(FSub(base, elo_penalty), wait_penalty), bot_penalty))

\* the rows of pvp_queue WHERE player_id = ?
QueueRows(player_id) == {row \in pvp_queue : row.player_id = player_id}

\* INSERT INTO pvp_queue (player_id, status, rating, queue_time, elo_range)
\* VALUES (?, 'waiting', ?, now, initial_elo_range)
QueueRow(player_id, rating) ==
    [player_id |-> player_id, status |-> "waiting", rating |-> rating,
     queue_time |-> now, elo_range |-> initial_elo_range]

\* join_queue that inserts without looking for an existing row
join_queue_NoCheck(player_id, rating) ==
    /\ \E r \in {IF rating = << >> THEN RatingOf(player_id) ELSE rating[1]} :
          /\ pvp_queue' = pvp_queue \cup {QueueRow(player_id, r)}
          /\ returned' = [op |-> "join_queue", player_id |-> player_id,
                          value |-> [success |-> TRUE, player_id |-> player_id, rating |-> r]]
    /\ UNCHANGED <<now, pvp_ratings, pvp_match_history, pvp_rank_history, pvp_bots,
                   pvp_matchmaking_log>>

\* MatchMaker.join_queue; rating is << >> for None and <<r>> for a given rating
join_queue(player_id, rating) ==
    /\ \E r \in {IF rating = << >> THEN RatingOf(player_id) ELSE rating[1]} :
          IF QueueRows(player_id) # {}
          THEN /\ returned' = [op |-> "join_queue", player_id |-> player_id,
                               value |-> [success |-> FALSE]]
               /\ UNCHANGED pvp_queue
          ELSE /\ pvp_queue' = pvp_queue \cup {QueueRow(player_id, r)}
               /\ returned' = [op |-> "join_queue", player_id |-> player_id,
                               value |-> [success |-> TRUE, player_id |-> player_id,
                                          rating |-> r]]
    /\ UNCHANGED <<now, pvp_ratings, pvp_match_history, pvp_rank_history, pvp_bots,
                   pvp_matchmaking_log>>

\* MatchMaker.leave_queue
leave_queue(player_id) ==
    /\ pvp_queue' = pvp_queue \ QueueRows(player_id)
    /\ returned' = [op |-> "leave_queue", player_id |-> player_id,
                    value |-> QueueRows(player_id) # {}]
    /\ UNCHANGED <<now, pvp_ratings, pvp_match_history, pvp_rank_history, pvp_bots,
                   pvp_matchmaking_log>>

\* the bot of MatchMaker._match_with_bot: any bot of the table, active or not
_match_with_bot_AnyBot(player_rating) ==
    IF pvp_bots = {} THEN {DefaultBot} ELSE pvp_bots

\* the bot of MatchMaker._match_with_bot: the first active bot by distance,
\* the default bot without one
_match_with_bot(player_rating) ==
    LET active == {bot \in pvp_bots : bot.active = 1}
    IN  IF active = {} THEN {DefaultBot} ELSE Closest(active, player_rating)

\* the quality scores of the matches of the players who poll from second 0,
\* computed once: their rating differences and their waits
QualityKeys ==
    {<<rating_diff, wait_time, is_bot>> :
        rating_diff \in {0, 150, 151, 200, 301, 501}, wait_time \in {0, 9, 10, 30, 70},
        is_bot \in BOOLEAN}

quality_scores == [key \in QualityKeys |-> _calc_quality(key[1], key[2], key[3])]

\* self._calc_quality(rating_diff, wait_seconds, is_bot) of a match
quality_score(rating_diff, wait_time, is_bot) ==
    IF <<rating_diff, wait_time, is_bot>> \in QualityKeys
    THEN quality_scores[<<rating_diff, wait_time, is_bot>>]
    ELSE _calc_quality(rating_diff, wait_time, is_bot)

\* the row of pvp_matchmaking_log of a match
MatchLogRow(player_id, opponent_id, player_rating, opponent_rating, wait_seconds, is_bot) ==
    [player1_id |-> player_id, player2_id |-> opponent_id,
     player1_rating |-> player_rating, player2_rating |-> opponent_rating,
     rating_diff |-> Abs(player_rating - opponent_rating),
     wait_time_seconds |-> wait_seconds, is_bot_match |-> is_bot,
     quality_score |-> quality_score(Abs(player_rating - opponent_rating), wait_seconds, is_bot)]

\* the MatchResult returned with that row
MatchResult(row) ==
    [player1_id |-> row.player1_id, player2_id |-> row.player2_id,
     rating_diff |-> row.rating_diff, wait_time |-> row.wait_time_seconds,
     is_bot |-> row.is_bot_match, quality_score |-> row.quality_score]

\* MatchMaker.find_match
find_match(player_id) ==
    /\ IF QueueRows(player_id) = {}
       THEN /\ returned' = [op |-> "find_match", player_id |-> player_id, value |-> None]
            /\ UNCHANGED <<pvp_queue, pvp_matchmaking_log>>
       ELSE \E me \in QueueRows(player_id) :
            \E player_rating \in {me.rating}, wait_seconds \in {now - me.queue_time} :
            \E range \in {current_range(wait_seconds)} :
            \E humans \in {{row \in pvp_queue : /\ row.player_id # player_id
                                                /\ row.status = "waiting"
                                                /\ Abs(row.rating - player_rating) <= range}} :
               IF humans # {}
               THEN \E opponent \in Closest(humans, player_rating) :
                    \E row \in {MatchLogRow(player_id, opponent.player_id, player_rating,
                                            opponent.rating, wait_seconds, FALSE)} :
                       /\ pvp_queue' = pvp_queue \ (QueueRows(player_id)
                                                    \cup QueueRows(opponent.player_id))
                       /\ pvp_matchmaking_log' = Append(pvp_matchmaking_log, row)
                       /\ returned' = [op |-> "find_match", player_id |-> player_id,
                                       value |-> MatchResult(row)]
               ELSE IF wait_seconds >= max_wait_time
               THEN \E bot \in _match_with_bot(player_rating) :
                    \E row \in {MatchLogRow(player_id, bot.bot_id, player_rating, bot.rating,
                                            wait_seconds, TRUE)} :
                       /\ pvp_queue' = pvp_queue \ QueueRows(player_id)
                       /\ pvp_matchmaking_log' = Append(pvp_matchmaking_log, row)
                       /\ returned' = [op |-> "find_match", player_id |-> player_id,
                                       value |-> MatchResult(row)]
               ELSE /\ pvp_queue' = {IF row.player_id = player_id
                                     THEN [row EXCEPT !.elo_range = range]
                                     ELSE row : row \in pvp_queue}
                    /\ returned' = [op |-> "find_match", player_id |-> player_id, value |-> None]
                    /\ UNCHANGED pvp_matchmaking_log
    /\ UNCHANGED <<now, pvp_ratings, pvp_match_history, pvp_rank_history, pvp_bots>>

\* the seconds at which calls are made: they give waits of 1, 9, 10, 20, 21, 30, 40,
\* 60, 61 and 70 seconds
Instants == {0, 9, 10, 30, 70}

\* time passes between two calls: the clock moves to the next instant
Tick ==
    /\ now < MaxClock
    /\ \E t \in Instants :
          /\ t > now
          /\ \A u \in Instants : u > now => t <= u
          /\ now' = t
    /\ returned' = NoCall
    /\ UNCHANGED <<pvp_ratings, pvp_match_history, pvp_rank_history, pvp_queue, pvp_bots,
                   pvp_matchmaking_log>>

\* the ratings given to join_queue, and None
JoinRatings == {<< >>}

\* the pvp_ratings rows of the players when matchmaking starts: player 1001
\* has none (and so the default rating), the others are 200 and 501 away from
\* it and 301 from each other
StoredRatings ==
    {[p \in PlayerIds |->
        IF p = 1001 THEN NoRow
        ELSE [player_id |-> p, wins |-> 0, losses |-> 0,
              rating |-> IF p = 1002 THEN 1400 ELSE 1701]]}

\* the pvp_bots tables of the model: empty, and three bots of which one is inactive
StoredBots ==
    {{},
     {[bot_id |-> 9001, rating |-> 1200, active |-> 1],
      [bot_id |-> 9002, rating |-> 1550, active |-> 1],
      [bot_id |-> 9003, rating |-> 1500, active |-> 0]}}

(***************************************************************************)
(* SeasonManager (src/pvp_system.py)                                       *)
(***************************************************************************)
VARIABLES
    pvp_seasons,         \* table pvp_seasons: its rows, in insertion order
    pvp_player_season,   \* table pvp_player_season: <<player_id, season_id>> -> its row, or NoRow
    pvp_season_rewards,  \* table pvp_season_rewards: the set of its rows
    claims,              \* <<player_id, season_id>> -> the claim_rewards calls that returned True
    resets               \* the soft_reset_ratings calls made

seasonvars == <<pvp_seasons, pvp_player_season, pvp_season_rewards, claims, resets>>

\* the seasons of the model
SeasonIds == {"S1", "S2"}

\* the value rewards_claimed has in a row inserted without it
Unclaimed == 0

\* UPDATE pvp_seasons SET status = 'ended' WHERE ..., for the rows numbered in ended
EndSeasons(ended) ==
    [i \in DOMAIN pvp_seasons |->
        IF i \in ended THEN [pvp_seasons[i] EXCEPT !.status = "ended"]
        ELSE pvp_seasons[i]]

\* start_season inserting the new season beside the active ones
start_season_KeepActive(season_id, name, duration_days) ==
    /\ Len(pvp_seasons) < MaxSeasons
    /\ pvp_seasons' = Append(pvp_seasons,
                             [season_id |-> season_id, name |-> name,
                              start_date |-> now \div 86400,
                              end_date |-> now \div 86400 + duration_days,
                              status |-> "active"])
    /\ returned' = [op |-> "start_season",
                    value |-> [season_id |-> season_id, name |-> name,
                               start_date |-> now \div 86400,
                               end_date |-> now \div 86400 + duration_days]]
    /\ UNCHANGED <<pvp_player_season, pvp_season_rewards, claims, resets>>

\* start_season: every active season is ended and the new one inserted as
\* active.  The table's key is not part of the sources: when a row of
\* season_id exists the INSERT either adds a second row (no key) or raises
\* sqlite3.IntegrityError before the commit, which leaves the table as it was.
start_season(season_id, name, duration_days) ==
    /\ Len(pvp_seasons) < MaxSeasons
    /\ \/ /\ pvp_seasons' = Append(EndSeasons({i \in DOMAIN pvp_seasons : pvp_seasons[i].status = "active"}),
                                   [season_id |-> season_id, name |-> name,
                                    start_date |-> now \div 86400,
                                    end_date |-> now \div 86400 + duration_days,
                                    status |-> "active"])
          /\ returned' = [op |-> "start_season",
                          value |-> [season_id |-> season_id, name |-> name,
                                     start_date |-> now \div 86400,
                                     end_date |-> now \div 86400 + duration_days]]
       \/ /\ \E i \in DOMAIN pvp_seasons : pvp_seasons[i].season_id = season_id
          /\ pvp_seasons' = pvp_seasons
          /\ returned' = [op |-> "start_season", raised |-> "IntegrityError"]
    /\ UNCHANGED <<pvp_player_season, pvp_season_rewards, claims, resets>>

\* end_season: INSERT OR REPLACE of the record of every player with a game,
\* then the season's status
end_season(season_id) ==
    /\ \E players \in {{p \in PlayerIds : /\ pvp_ratings[p] # NoRow
                                          /\ pvp_ratings[p].wins + pvp_ratings[p].losses > 0}} :
          /\ pvp_player_season' =
                [k \in DOMAIN pvp_player_season |->
                    IF k[1] \in players /\ k[2] = season_id
                    THEN [player_id |-> k[1], season_id |-> season_id,
                          final_rating |-> pvp_ratings[k[1]].rating,
                          final_rank |-> _get_rank_tier(pvp_ratings[k[1]].rating),
                          wins |-> pvp_ratings[k[1]].wins,
                          losses |-> pvp_ratings[k[1]].losses,
                          max_rating |-> pvp_ratings[k[1]].rating,
                          rewards_claimed |-> Unclaimed]
                    ELSE pvp_player_season[k]]
          /\ returned' = [op |-> "end_season",
                          value |-> [season_id |-> season_id,
                                     players_processed |-> Cardinality(players)]]
    /\ pvp_seasons' = EndSeasons({i \in DOMAIN pvp_seasons : pvp_seasons[i].season_id = season_id})
    /\ UNCHANGED <<pvp_season_rewards, claims, resets>>

\* get_season_rewards: None for a missing or claimed record and for a rank
\* without a reward row
get_season_rewards(season_id, player_id) ==
    /\ \E row \in {pvp_player_season[<<player_id, season_id>>]} :
          returned' =
             [op |-> "get_season_rewards", season_id |-> season_id, player_id |-> player_id,
              value |->
                 IF row = NoRow \/ row.rewards_claimed = 1 THEN None
                 ELSE LET reward_rows == {r \in pvp_season_rewards :
                                             /\ r.season_id = season_id
                                             /\ r.rank_tier = row.final_rank}
                      IN  IF reward_rows = {} THEN None
                          ELSE LET reward_row == CHOOSE r \in reward_rows : TRUE
                               IN  [rank_tier |-> row.final_rank, coins |-> reward_row.coins,
                                    exp |-> reward_row.exp, title |-> reward_row.title,
                                    special_item |-> reward_row.special_item]]
    /\ UNCHANGED <<pvp_seasons, pvp_player_season, pvp_season_rewards, claims, resets>>

\* the rows the UPDATE of claim_rewards changes, found without rewards_claimed = 0
ClaimableRow_Any(row) == row # NoRow

\* the rows the UPDATE of claim_rewards changes
ClaimableRow(row) == row # NoRow /\ row.rewards_claimed = 0

\* claim_rewards: success = cur.rowcount > 0
claim_rewards(season_id, player_id) ==
    /\ \E key \in {<<player_id, season_id>>} :
       \E success \in {ClaimableRow(pvp_player_season[key])} :
          /\ success => claims[key] < MaxClaims
          /\ pvp_player_season' =
                IF success THEN [pvp_player_season EXCEPT ![key].rewards_claimed = 1]
                ELSE pvp_player_season
          /\ claims' = IF success THEN [claims EXCEPT ![key] = @ + 1] ELSE claims
          /\ returned' = [op |-> "claim_rewards", season_id |-> season_id,
                          player_id |-> player_id, value |-> success]
    /\ UNCHANGED <<pvp_seasons, pvp_season_rewards, resets>>

base_rating == 1200

\* ? + CAST((rating - ?) * ? AS INTEGER) with truncation in place of the product
SoftReset_NoScale(rating, reset_pct) == base_rating + FTrunc(FromInt(rating - base_rating))

\* ? + CAST((rating - ?) * ? AS INTEGER): a binary64 product, truncated toward zero
SoftReset(rating, reset_pct) ==
    base_rating + FTrunc(FMul(FromInt(rating - base_rating), reset_pct))

\* soft_reset_ratings: every row of pvp_ratings
soft_reset_ratings(reset_pct) ==
    /\ resets < MaxResets
    /\ resets' = resets + 1
    /\ pvp_ratings' =
          [p \in DOMAIN pvp_ratings |->
              IF pvp_ratings[p] = NoRow THEN NoRow
              ELSE [pvp_ratings[p] EXCEPT !.rating = SoftReset(@, reset_pct), !.streak = 0]]
    /\ returned' = [op |-> "soft_reset_ratings", reset_pct |-> reset_pct,
                    value |-> Cardinality({p \in DOMAIN pvp_ratings : pvp_ratings[p] # NoRow})]
    /\ UNCHANGED <<pvp_seasons, pvp_player_season, pvp_season_rewards, claims>>

(***************************************************************************)
(* MatchMaker.find_match called by several players at once: every call     *)
(* opens its own connection, and Python's sqlite3 opens a transaction only  *)
(* before the first DELETE, INSERT or UPDATE.  The SELECTs of a call and    *)
(* its writes are therefore two steps with other calls in between.          *)
(***************************************************************************)
VARIABLE
    calls    \* player_id -> what the find_match call in flight has read, or NoCall

\* the SELECTs of find_match: the caller's row, the wait, the radius and the
\* closest waiting human
find_match_read(player_id) ==
    /\ calls[player_id] = NoCall
    /\ IF QueueRows(player_id) = {}
       THEN /\ returned' = [op |-> "find_match", player_id |-> player_id, value |-> None]
            /\ UNCHANGED calls
       ELSE \E me \in QueueRows(player_id) :
            \E wait_seconds \in {now - me.queue_time} :
            \E range \in {current_range(wait_seconds)} :
            \E humans \in {{row \in pvp_queue : /\ row.player_id # player_id
                                                /\ row.status = "waiting"
                                                /\ Abs(row.rating - me.rating) <= range}} :
            \E opponent \in IF humans = {} THEN {NoRow} ELSE Closest(humans, me.rating) :
               /\ calls' = [calls EXCEPT ![player_id] =
                               [op |-> "find_match", player_rating |-> me.rating,
                                wait_seconds |-> wait_seconds, current_range |-> range,
                                opponent |-> opponent]]
               /\ UNCHANGED returned
    /\ UNCHANGED <<now, pvp_ratings, pvp_match_history, pvp_rank_history, pvp_queue, pvp_bots,
                   pvp_matchmaking_log>>

\* the rest of find_match: the DELETE and the log row of a match, or the
\* UPDATE of the radius, then the commit and the return
find_match_write(player_id) ==
    /\ calls[player_id] # NoCall
    /\ calls' = [calls EXCEPT ![player_id] = NoCall]
    /\ \E read \in {calls[player_id]} :
          IF read.opponent # NoRow
          THEN \E row \in {MatchLogRow(player_id, read.opponent.player_id, read.player_rating,
                                       read.opponent.rating, read.wait_seconds, FALSE)} :
                  /\ pvp_queue' = pvp_queue \ (QueueRows(player_id)
                                               \cup QueueRows(read.opponent.player_id))
                  /\ pvp_matchmaking_log' = Append(pvp_matchmaking_log, row)
                  /\ returned' = [op |-> "find_match", player_id |-> player_id,
                                  value |-> MatchResult(row)]
          ELSE IF read.wait_seconds >= max_wait_time
          THEN \E bot \in _match_with_bot(read.player_rating) :
               \E row \in {MatchLogRow(player_id, bot.bot_id, read.player_rating, bot.rating,
                                       read.wait_seconds, TRUE)} :
                  /\ pvp_queue' = pvp_queue \ QueueRows(player_id)
                  /\ pvp_matchmaking_log' = Append(pvp_matchmaking_log, row)
                  /\ returned' = [op |-> "find_match", player_id |-> player_id,
                                  value |-> MatchResult(row)]
          ELSE /\ pvp_queue' = {IF row.player_id = player_id
                                THEN [row EXCEPT !.elo_range = read.current_range]
                                ELSE row : row \in pvp_queue}
               /\ returned' = [op |-> "find_match", player_id |-> player_id, value |-> None]
               /\ UNCHANGED pvp_matchmaking_log
    /\ UNCHANGED <<now, pvp_ratings, pvp_match_history, pvp_rank_history, pvp_bots>>

(***************************************************************************)
(* Specifications                                                          *)
(***************************************************************************)
vars == <<card, review_cards, review_history, now,
          profiles, adaptive_learner_profiles, adaptive_learning_log, target,
          pvp_ratings, pvp_match_history, pvp_rank_history, pvp_queue, pvp_bots,
          pvp_matchmaking_log, returned,
          pvp_seasons, pvp_player_season, pvp_season_rewards, claims, resets, calls>>

SM2Idle ==
    /\ card = NoCard
    /\ review_cards = NoCard
    /\ review_history = << >>
    /\ now = 0

LearnerIdle ==
    /\ profiles = NoProfile
    /\ adaptive_learner_profiles = NoProfile
    /\ adaptive_learning_log = << >>
    /\ target = NoTarget

SeasonIdle ==
    /\ pvp_seasons = << >>
    /\ pvp_player_season = [k \in PlayerIds \X SeasonIds |-> NoRow]
    /\ pvp_season_rewards = {}
    /\ claims = [k \in PlayerIds \X SeasonIds |-> 0]
    /\ resets = 0
    /\ calls = [p \in PlayerIds |-> NoCall]

PvPIdle ==
    /\ pvp_ratings = [p \in PlayerIds |-> NoRow]
    /\ pvp_match_history = << >>
    /\ pvp_rank_history = << >>
    /\ pvp_queue = {}
    /\ pvp_bots = {}
    /\ pvp_matchmaking_log = << >>
    /\ returned = NoCall
    /\ SeasonIdle

InitSM2 == SM2Idle /\ LearnerIdle /\ PvPIdle

NextSM2 ==
    /\ \/ get_or_create_card
       \/ \E quality \in Quality \cup BadQuality : process_review(quality)
    /\ UNCHANGED <<learnervars, pvpvars, seasonvars, calls>>

SpecSM2 == InitSM2 /\ [][NextSM2]_vars

\* a learner whose row is absent or one of StoredProfiles
InitLearner ==
    /\ SM2Idle
    /\ profiles = NoProfile
    /\ adaptive_learner_profiles \in StoredProfiles \cup {NoProfile}
    /\ adaptive_learning_log = << >>
    /\ target = NoTarget
    /\ PvPIdle

NextLearner ==
    /\ \E difficulty \in Difficulties, domain_id \in DomainIds, is_correct \in BOOLEAN :
          record_answer(difficulty, domain_id, is_correct)
    /\ UNCHANGED <<sm2vars, pvpvars, seasonvars, calls>>

SpecLearner == InitLearner /\ [][NextLearner]_vars

\* _calc_target_difficulty applied to every ability and momentum of the grid
InitTarget ==
    /\ SM2Idle
    /\ profiles \in {[LearnerProfile EXCEPT !.ability_level = a, !.momentum = m] :
                        a \in Abilities, m \in Momenta}
    /\ adaptive_learner_profiles = NoProfile
    /\ adaptive_learning_log = << >>
    /\ target = NoTarget
    /\ PvPIdle

NextTarget ==
    /\ \E strategy \in SelectionStrategy : calc_target_difficulty(strategy)
    /\ UNCHANGED <<sm2vars, pvpvars, seasonvars, calls>>

SpecTarget == InitTarget /\ [][NextTarget]_vars

\* the stored ratings of the humans when a battle result is submitted
EloRatings == {1200, 1201, 1216, 1399, 1400, 1500, 1501, 1600, 1800}

\* battles submitted for players with and without a pvp_ratings row
InitElo ==
    /\ SM2Idle
    /\ LearnerIdle
    /\ pvp_ratings \in
          {[p \in PlayerIds |-> IF r[p] = 0 THEN NoRow
                                ELSE [player_id |-> p, rating |-> r[p], wins |-> 0, losses |-> 0]] :
              r \in {f \in [PlayerIds -> EloRatings \cup {0}] : f[9001] \in {0, 1500}}}
    /\ pvp_match_history = << >>
    /\ pvp_rank_history = << >>
    /\ pvp_queue = {}
    /\ pvp_bots = {}
    /\ pvp_matchmaking_log = << >>
    /\ returned = NoCall
    /\ SeasonIdle

NextElo ==
    /\ \E battle \in pvp_battles, winner_id \in PlayerIds :
          /\ winner_id \in {battle.player1_id, battle.player2_id}
          /\ submit_battle_result(battle.battle_id, winner_id)
    /\ UNCHANGED <<sm2vars, learnervars, seasonvars, calls>>

SpecElo == InitElo /\ [][NextElo]_vars

\* the ratings looked up: every threshold, its two neighbours, and the ends
TierRatings ==
    {-1, 0, 1, 3000} \cup
    {RANK_THRESHOLDS[RankTier[i]] + d : i \in 2..Len(RankTier), d \in {-1, 0, 1}}

\* the ratings given to check_rank_change: in six of the tiers, two of them
\* twice, on thresholds and next to them
ChangeRatings == {0, 1199, 1200, 1400, 1401, 1999, 2000, 2200}

InitRank == SM2Idle /\ LearnerIdle /\ PvPIdle

NextRank ==
    /\ \/ \E old_rating \in ChangeRatings, new_rating \in ChangeRatings :
             check_rank_change(1001, old_rating, new_rating)
       \/ \E rating \in TierRatings : get_tier(rating)
    /\ UNCHANGED <<sm2vars, learnervars, seasonvars, calls>>

SpecRank == InitRank /\ [][NextRank]_vars

\* matchmaking for players with stored ratings and a stored table of bots
InitQueue ==
    /\ SM2Idle
    /\ LearnerIdle
    /\ pvp_ratings \in StoredRatings
    /\ pvp_match_history = << >>
    /\ pvp_rank_history = << >>
    /\ pvp_queue = {}
    /\ pvp_bots \in StoredBots
    /\ pvp_matchmaking_log = << >>
    /\ returned = NoCall
    /\ SeasonIdle

\* the queue is followed up to its MaxMatches-th match
NextQueue ==
    /\ Len(pvp_matchmaking_log) < MaxMatches
    /\ \/ \E player_id \in PlayerIds, rating \in JoinRatings : join_queue(player_id, rating)
       \/ \E player_id \in PlayerIds : leave_queue(player_id)
       \/ \E player_id \in PlayerIds : find_match(player_id)
       \/ Tick
    /\ UNCHANGED <<card, review_cards, review_history, learnervars, seasonvars, calls>>

SpecQueue == InitQueue /\ [][NextQueue]_vars

\* the pvp_ratings rows when a season is run: player 1001 has played, player
\* 1002 has a row without a game, 9001 has no row
SeasonRatings ==
    {[p \in PlayerIds |->
        IF p = 1001 THEN [player_id |-> p, rating |-> r, wins |-> 3, losses |-> 1, streak |-> 2]
        ELSE IF p = 1002 THEN [player_id |-> p, rating |-> 1200, wins |-> 0, losses |-> 0,
                               streak |-> 0]
        ELSE NoRow] : r \in {1390, 1400}}

\* the pvp_season_rewards tables of the model: empty, and rewards of season
\* S1 for two ranks
StoredRewards ==
    {{},
     {[season_id |-> "S1", rank_tier |-> "gold", coins |-> 500, exp |-> 200,
       title |-> "Gold", special_item |-> "NULL"],
      [season_id |-> "S1", rank_tier |-> "bronze", coins |-> 100, exp |-> 50,
       title |-> "NULL", special_item |-> "NULL"]}}

InitSeason ==
    /\ SM2Idle
    /\ LearnerIdle
    /\ pvp_ratings \in SeasonRatings
    /\ pvp_match_history = << >>
    /\ pvp_rank_history = << >>
    /\ pvp_queue = {}
    /\ pvp_bots = {}
    /\ pvp_matchmaking_log = << >>
    /\ returned = NoCall
    /\ pvp_seasons = << >>
    /\ pvp_player_season = [k \in PlayerIds \X SeasonIds |-> NoRow]
    /\ pvp_season_rewards \in StoredRewards
    /\ claims = [k \in PlayerIds \X SeasonIds |-> 0]
    /\ resets = 0
    /\ calls = [p \in PlayerIds |-> NoCall]

NextSeason ==
    /\ \/ \E season_id \in SeasonIds : start_season(season_id, season_id, 30)
       \/ \E season_id \in SeasonIds : end_season(season_id)
       \/ \E season_id \in SeasonIds, player_id \in PlayerIds :
             get_season_rewards(season_id, player_id)
       \/ \E season_id \in SeasonIds, player_id \in PlayerIds :
             claim_rewards(season_id, player_id)
    /\ UNCHANGED <<sm2vars, learnervars, pvp_ratings, pvp_match_history, pvp_rank_history,
                   pvp_queue, pvp_bots, pvp_matchmaking_log, calls>>

SpecSeason == InitSeason /\ [][NextSeason]_vars

\* the ratings of the rows soft_reset_ratings is applied to
ResetRatings == {0, 1100, 1199, 1200, 1201, 1300, 1500, 2400}

\* reset_pct as <<numerator, denominator>>: the default 0.5, fractions with
\* and without an exact binary64 value, the ends 0 and 1, and a factor above 1
ResetPcts == {<<0, 1>>, <<1, 10>>, <<1, 4>>, <<29, 100>>, <<1, 2>>, <<1, 1>>, <<3, 2>>}

InitReset ==
    /\ SM2Idle
    /\ LearnerIdle
    /\ pvp_ratings \in
          {[p \in PlayerIds |->
              IF p = 1001 THEN [player_id |-> p, rating |-> r1, wins |-> 3, losses |-> 1,
                                streak |-> 2]
              ELSE IF p = 1002 THEN [player_id |-> p, rating |-> r2, wins |-> 0, losses |-> 5,
                                     streak |-> -5]
              ELSE NoRow] : r1 \in ResetRatings, r2 \in ResetRatings}
    /\ pvp_match_history = << >>
    /\ pvp_rank_history = << >>
    /\ pvp_queue = {}
    /\ pvp_bots = {}
    /\ pvp_matchmaking_log = << >>
    /\ returned = NoCall
    /\ SeasonIdle

NextReset ==
    /\ \E pct \in ResetPcts : soft_reset_ratings(Dec(pct[1], pct[2]))
    /\ UNCHANGED <<sm2vars, learnervars, pvp_match_history, pvp_rank_history,
                   pvp_queue, pvp_bots, pvp_matchmaking_log, calls>>

SpecReset == InitReset /\ [][NextReset]_vars

\* the three players wait in the queue since second 0, as join_queue left them
InitRace ==
    /\ SM2Idle
    /\ LearnerIdle
    /\ pvp_ratings \in StoredRatings
    /\ pvp_match_history = << >>
    /\ pvp_rank_history = << >>
    /\ pvp_queue = {QueueRow(p, RatingOf(p)) : p \in PlayerIds}
    /\ pvp_bots \in StoredBots
    /\ pvp_matchmaking_log = << >>
    /\ returned = NoCall
    /\ SeasonIdle

\* find_match calls of the three players, interleaved
NextRace ==
    /\ \/ \E player_id \in PlayerIds : find_match_read(player_id)
       \/ \E player_id \in PlayerIds : find_match_write(player_id)
       \/ Tick /\ UNCHANGED calls
    /\ UNCHANGED <<card, review_cards, review_history, learnervars, seasonvars>>

SpecRace == InitRace /\ [][NextRace]_vars

\* some of the players have joined the queue at second 0
InitPoll ==
    /\ SM2Idle
    /\ LearnerIdle
    /\ pvp_ratings \in StoredRatings
    /\ pvp_match_history = << >>
    /\ pvp_rank_history = << >>
    /\ pvp_queue \in SUBSET {QueueRow(p, RatingOf(p)) : p \in PlayerIds}
    /\ pvp_bots \in StoredBots
    /\ pvp_matchmaking_log = << >>
    /\ returned = NoCall
    /\ SeasonIdle

\* one find_match call of a player who polls
Poll(player_id) ==
    /\ find_match(player_id)
    /\ UNCHANGED <<card, review_cards, review_history, learnervars, seasonvars, calls>>

\* time passes between two polls
Pass ==
    /\ Tick
    /\ UNCHANGED <<card, review_cards, review_history, learnervars, seasonvars, calls>>

\* every player polls find_match, one call at a time, while time passes
NextPoll ==
    \/ \E player_id \in PlayerIds : Poll(player_id)
    \/ Pass

\* the clock keeps running and every player keeps calling find_match
SpecPoll ==
    /\ InitPoll
    /\ [][NextPoll]_vars
    /\ WF_vars(Pass)
    /\ \A player_id \in PlayerIds : WF_vars(Poll(player_id))

(***************************************************************************)
(* Properties of SM2Engine                                                 *)
(***************************************************************************)
LastReview == review_history[Len(review_history)]

\* this step is a process_review call, and its grade
Reviewed == Len(review_history') = Len(review_history) + 1

Grade == review_history'[Len(review_history')].quality

\* every grade submitted so far is one of ReviewQuality
ValidGrades == \A i \in 1..Len(review_history) : review_history[i].quality \in Quality

\* C1: after any sequence of reviews with grades in 0..5 the easiness of the
\* card (the object and its stored row) is never below 1.3.
C1_EasinessFloor ==
    (card # NoCard /\ ValidGrades) =>
        /\ ~FLess(card.easiness, F_1_3)
        /\ ~FLess(review_cards.easiness, F_1_3)

\* three consecutive blackout reviews have been clamped at 1.3
C1_Witness ==
    /\ card # NoCard
    /\ Len(review_history) >= 3
    /\ \A i \in 1..Len(review_history) : review_history[i].quality = 0
    /\ card.easiness = F_1_3

\* C2 as stated: a passing review increments repetitions and sets the interval
\* to 1, 6 or round(interval * easiness).
C2_RoundedInterval ==
    [][(Reviewed /\ Grade >= 3) =>
        /\ card'.repetitions = card.repetitions + 1
        /\ card'.interval =
              IF card'.repetitions = 1 THEN 1
              ELSE IF card'.repetitions = 2 THEN 6
              ELSE FRound(FMul(FromInt(card.interval), card.easiness))]_vars

\* C2 amended: a passing review increments repetitions and sets the interval
\* to 1, 6 or the product interval * easiness truncated toward zero: the
\* integer n with n <= interval * easiness < n + 1.
C2_TruncatedInterval ==
    [][(Reviewed /\ Grade >= 3) =>
        /\ card'.repetitions = card.repetitions + 1
        /\ IF card'.repetitions = 1 THEN card'.interval = 1
           ELSE IF card'.repetitions = 2 THEN card'.interval = 6
           ELSE LET p == FMul(FromInt(card.interval), card.easiness) IN
                /\ ~FLess(p, FromInt(card'.interval))
                /\ FLess(p, FromInt(card'.interval + 1))]_vars

\* a third consecutive pass whose product has a fraction of at least one half
C2_Witness ==
    /\ card # NoCard
    /\ Len(review_history) >= 3
    /\ LastReview.quality >= 3
    /\ card.repetitions >= 3
    /\ LET p == FMul(FromInt(LastReview.interval_before), LastReview.easiness_before) IN
         /\ card.interval = FTrunc(p)
         /\ FRound(p) = card.interval + 1

\* C3: a failing review (grade < 3) sets repetitions to 0 and interval to 1
\* whatever they were, and still applies the easiness update.
C3_FailResets ==
    [][(Reviewed /\ Grade < 3) =>
        /\ card'.repetitions = 0
        /\ card'.interval = 1
        /\ card'.easiness = FMax(F_1_3, FAdd(card.easiness, EasinessDelta(Grade)))]_vars

\* a lapse after the card had reached an interval of 6 days or more
C3_Witness ==
    /\ card # NoCard
    /\ Len(review_history) >= 3
    /\ LastReview.quality < 3
    /\ LastReview.interval_before >= 6
    /\ card.repetitions = 0
    /\ card.interval = 1
    /\ card.easiness # LastReview.easiness_before

\* C4: within a run of passing reviews the interval after a review with
\* repetitions >= 2 is at least the interval after the previous review.
C4_IntervalMonotone ==
    [][(Reviewed /\ Grade >= 3 /\ card'.repetitions >= 2) =>
        card'.interval >= card.interval]_vars

\* a run of four passes whose last interval grew
C4_Witness ==
    /\ card # NoCard
    /\ card.repetitions >= 4
    /\ LastReview.quality >= 3
    /\ LastReview.interval_after > LastReview.interval_before
    /\ LastReview.interval_before > 6

\* C5: the interval of a card created by get_or_create_card is always an
\* integer >= 1, in the object and in the stored row.
C5_IntervalPositive ==
    card # NoCard =>
        /\ card.interval \in Nat /\ card.interval >= 1
        /\ review_cards.interval \in Nat /\ review_cards.interval >= 1

\* both the reset and the product branch have produced an interval
C5_Witness ==
    /\ card # NoCard
    /\ \E i \in 1..Len(review_history) : review_history[i].quality < 3
    /\ card.repetitions >= 3
    /\ card.interval >= 7

\* C6: a review with a grade outside 0..5 is rejected and leaves the card
\* (easiness, interval, repetitions, counters, review dates) unchanged.
C6_OutOfRangeRejected ==
    [][(\E quality \in BadQuality : process_review(quality)) =>
        UNCHANGED <<card, review_cards>>]_vars

(***************************************************************************)
(* Properties of AdaptiveLearner                                           *)
(***************************************************************************)
\* lo <= x <= hi
InRange(lo, hi, x) == ~FLess(x, lo) /\ ~FLess(hi, x)

\* C7: for every ability in [0,1] (1.0 included), every momentum in [-1,1]
\* and each of the four strategies _calc_target_difficulty returns an
\* integer in 1..5.
C7_TargetInRange ==
    (/\ target # NoTarget
     /\ InRange(FZero, F_1, profiles.ability_level)
     /\ InRange(F_neg_1, F_1, profiles.momentum)
     /\ target.strategy \in SelectionStrategy)
        => target.difficulty \in 1..5

\* ability 1.0 with a rising momentum under the balanced strategy: 5, not 6
C7_Witness ==
    /\ target # NoTarget
    /\ target.strategy = "balanced"
    /\ profiles.ability_level = F_1
    /\ FLess(F_0_3, profiles.momentum)
    /\ target.difficulty = 5

\* C8: the target difficulty is base = 1 + floor(ability * 4), raised by one
\* (at most 5) for challenge, lowered by one (at least 1) for review and
\* weak_focus, and for balanced raised when momentum > 0.3, lowered when
\* momentum < -0.3 and left at base otherwise, momentum exactly 0.3 or -0.3
\* included.
C8_TargetFormula ==
    target # NoTarget =>
        \E b \in 0..4 :
            LET a4   == FMul(profiles.ability_level, F_4)
                base == 1 + b
                up   == IF base + 1 > 5 THEN 5 ELSE base + 1
                down == IF base - 1 < 1 THEN 1 ELSE base - 1
            IN  /\ ~FLess(a4, FromInt(b))
                /\ FLess(a4, FromInt(b + 1)) \/ (b = 4 /\ a4 = F_4)
                /\ target.difficulty =
                      CASE target.strategy = "challenge" -> up
                        [] target.strategy \in {"review", "weak_focus"} -> down
                        [] target.strategy = "balanced" ->
                              IF profiles.momentum = F_0_3 \/ profiles.momentum = F_neg_0_3
                              THEN base
                              ELSE IF FLess(F_0_3, profiles.momentum) THEN up
                              ELSE IF FLess(profiles.momentum, F_neg_0_3) THEN down
                              ELSE base

\* ability 0.5, balanced, momentum 0 gives 3
C8_Witness ==
    /\ target # NoTarget
    /\ target.strategy = "balanced"
    /\ profiles.ability_level = F_0_5
    /\ profiles.momentum = FZero
    /\ target.difficulty = 3

ProfileInBounds(p) ==
    /\ InRange(FZero, F_1, p.ability_level)
    /\ InRange(FZero, F_1, p.stability)
    /\ \A d \in DOMAIN p.domain_abilities : InRange(FZero, F_1, p.domain_abilities[d])
    /\ InRange(F_neg_1, F_1, p.momentum)

LastAnswer == adaptive_learning_log[Len(adaptive_learning_log)]

\* C9: after any sequence of record_answer calls on a profile that starts
\* within bounds, ability, stability and every domain ability are in [0,1]
\* and momentum is in [-1,1], in the cached profile and in the stored row.
C9_ProfileInBounds ==
    /\ profiles # NoProfile => ProfileInBounds(profiles)
    /\ adaptive_learner_profiles # NoProfile => ProfileInBounds(adaptive_learner_profiles)

\* a correct answer on a profile already at ability 1.0: the sum 1.05, the
\* momentum 1.2 and the domain ability are held at 1
C9_Witness ==
    /\ profiles # NoProfile
    /\ Len(adaptive_learning_log) >= 1
    /\ LastAnswer.is_correct = 1
    /\ LastAnswer.domain_id # ""
    /\ LastAnswer.ability_before = F_1
    /\ profiles.ability_level = F_1
    /\ profiles.momentum = F_1
    /\ profiles.domain_abilities[LastAnswer.domain_id] = F_1

\* this step is a record_answer call, the profile it started from and its outcome
Answered == Len(adaptive_learning_log') = Len(adaptive_learning_log) + 1

RecentBefore ==
    IF profiles # NoProfile THEN profiles.recent_accuracy
    ELSE IF adaptive_learner_profiles # NoProfile THEN adaptive_learner_profiles.recent_accuracy
    ELSE << >>

Outcome == adaptive_learning_log'[Len(adaptive_learning_log')].is_correct

\* C10: the recent-outcome history never holds more than 20 entries, its
\* tail is the outcomes submitted so far in submission order, and every
\* record_answer appends the new outcome at the end, dropping the oldest
\* entry when the history was full, in the cached profile and the stored row.
C10_RecentWindow ==
    /\ [](profiles # NoProfile =>
            LET recent == profiles.recent_accuracy
                n      == Len(adaptive_learning_log)
            IN  /\ Len(recent) <= 20
                /\ Len(adaptive_learner_profiles.recent_accuracy) <= 20
                /\ Len(recent) >= (IF n < 20 THEN n ELSE 20)
                /\ \A i \in 1..(IF n < 20 THEN n ELSE 20) :
                      recent[Len(recent) - i + 1] = adaptive_learning_log[n - i + 1].is_correct)
    /\ [][Answered =>
            LET all == RecentBefore \o <<Outcome>>
                new == IF Len(all) <= 20 THEN all ELSE SubSeq(all, Len(all) - 19, Len(all))
            IN  /\ profiles'.recent_accuracy = new
                /\ adaptive_learner_profiles'.recent_accuracy = new]_vars

\* a full history that has taken two more outcomes
C10_Witness ==
    /\ profiles # NoProfile
    /\ Len(adaptive_learning_log) >= 2
    /\ Len(profiles.recent_accuracy) = 20
    /\ profiles.recent_accuracy[20] = LastAnswer.is_correct
    /\ profiles.recent_accuracy[19] =
          adaptive_learning_log[Len(adaptive_learning_log) - 1].is_correct
    /\ profiles.recent_accuracy[1] # profiles.recent_accuracy[20]

(***************************************************************************)
(* Properties of the Elo update (submit_battle_result)                     *)
(***************************************************************************)
\* this step is a submit_battle_result call
Submitted == Len(pvp_match_history') = Len(pvp_match_history) + 1

\* the pvp_match_history row this step inserted
Battle == pvp_match_history'[Len(pvp_match_history')]

\* C11: for a battle between two humans the two rating changes of
\* submit_battle_result add up to -1, 0 or 1.
C11_EloZeroSum ==
    [][(Submitted /\ Battle.player_id < 9000 /\ Battle.opponent_id < 9000) =>
          (pvp_ratings'[Battle.player_id].rating - RatingOf(Battle.player_id))
          + (pvp_ratings'[Battle.opponent_id].rating - RatingOf(Battle.opponent_id))
             \in {-1, 0, 1}]_vars

\* two humans rated 1500: the winner goes to 1516 and the loser to 1484
C11_Witness ==
    /\ pvp_match_history # << >>
    /\ pvp_match_history[1].player_id = 1001
    /\ pvp_match_history[1].opponent_id = 1002
    /\ pvp_match_history[1].rating_change = 16
    /\ pvp_ratings[1001].rating = 1516
    /\ pvp_ratings[1002].rating = 1484

\* the gain of a winner rated r over an opponent rated opp, as player 1 and as
\* player 2 of the battle
GainAsPlayer1(r, opp) == new_r1(r, opp, 1) - r

GainAsPlayer2(r, opp) == new_r2(opp, r, 0) - r

\* the winner ratings compared with the rating of this battle's winner
HigherBy == {1, 50}

\* C12 as stated: against the same opponent a higher-rated winner gains
\* strictly less than a lower-rated winner.
C12_StrictlyLessGain ==
    [][Submitted =>
          \E r1 \in {RatingOf(Battle.player_id)}, r2 \in {RatingOf(Battle.opponent_id)} :
             /\ Battle.result = "win" => Battle.rating_change = GainAsPlayer1(r1, r2)
             /\ \A k \in HigherBy :
                   /\ GainAsPlayer1(r1 + k, r2) < GainAsPlayer1(r1, r2)
                   /\ GainAsPlayer2(r2 + k, r1) < GainAsPlayer2(r2, r1)]_vars

\* C12, amended: against the same opponent a higher-rated winner never gains
\* more than a lower-rated winner; after rounding the two gains can be equal.
C12_NoGreaterGain ==
    [][Submitted =>
          \E r1 \in {RatingOf(Battle.player_id)}, r2 \in {RatingOf(Battle.opponent_id)} :
             /\ Battle.result = "win" => Battle.rating_change = GainAsPlayer1(r1, r2)
             /\ \A k \in HigherBy :
                   /\ GainAsPlayer1(r1 + k, r2) <= GainAsPlayer1(r1, r2)
                   /\ GainAsPlayer2(r2 + k, r1) <= GainAsPlayer2(r2, r1)]_vars

\* a winner rated 1500 gains 16 from an opponent rated 1500, and a winner rated
\* 1501 would gain the same 16
C12_Witness ==
    /\ pvp_match_history # << >>
    /\ pvp_match_history[1].battle_id = 3
    /\ pvp_match_history[1].result = "win"
    /\ returned.old_rating = 1500
    /\ RatingOf(9001) = 1500
    /\ pvp_match_history[1].rating_change = 16
    /\ GainAsPlayer1(1501, 1500) = 16

\* C13 as stated: submit_battle_result leaves the pvp_ratings row of every
\* participant with an id of 9000 or more as it was, on either side of the battle.
C13_BotRatingUntouched ==
    [][Submitted =>
          \A p \in {Battle.player_id, Battle.opponent_id} :
             p >= 9000 => pvp_ratings'[p] = pvp_ratings[p]]_vars

(***************************************************************************)
(* Properties of the rank tiers                                            *)
(***************************************************************************)
\* the table of tiers and thresholds
TierTable ==
    {<<"bronze", 0>>, <<"silver", 1200>>, <<"gold", 1400>>, <<"platinum", 1600>>,
     <<"diamond", 1800>>, <<"master", 2000>>, <<"grandmaster", 2200>>}

\* the tier of the table with the largest threshold <= r
HighestTier(r) ==
    (CHOOSE t \in TierTable : /\ t[2] <= r
                              /\ \A u \in TierTable : u[2] <= r => u[2] <= t[2])[1]

\* C14: for a rating r >= 0 both tier functions return the tier with the
\* largest threshold <= r, and they return the same tier.
C14_TierOfRating ==
    (returned.op = "get_tier" /\ returned.rating >= 0) =>
        /\ returned.tier = HighestTier(returned.rating)
        /\ returned.rank_tier = HighestTier(returned.rating)
        /\ returned.tier = returned.rank_tier

\* a rating exactly on the threshold of gold has been looked up
C14_Witness ==
    /\ returned.op = "get_tier"
    /\ returned.rating = 1400
    /\ returned.tier = "gold"
    /\ returned.rank_tier = "gold"

\* the tier of a rating, bronze below 0
TierOf(r) == IF r < 0 THEN "bronze" ELSE HighestTier(r)

\* the threshold of a tier of the table
ThresholdOf(tier) == (CHOOSE t \in TierTable : t[1] = tier)[2]

\* C15: check_rank_change returns an event and appends one pvp_rank_history
\* row exactly when the tiers of the two ratings differ, returns None and
\* writes nothing otherwise, and the event is a 'promote' exactly when the new
\* tier's threshold is higher and a 'demote' exactly when it is lower.
C15_RankChangeEvent ==
    [][returned'.op = "check_rank_change" =>
          \E old \in {TierOf(returned'.old_rating)}, new \in {TierOf(returned'.new_rating)} :
             IF old = new
             THEN /\ returned'.value = None
                  /\ pvp_rank_history' = pvp_rank_history
             ELSE /\ returned'.value # None
                  /\ returned'.value.old_tier = old
                  /\ returned'.value.new_tier = new
                  /\ returned'.value.change_type \in {"promote", "demote"}
                  /\ returned'.value.change_type = "promote" <=> ThresholdOf(new) > ThresholdOf(old)
                  /\ returned'.value.change_type = "demote" <=> ThresholdOf(new) < ThresholdOf(old)
                  /\ Len(pvp_rank_history') = Len(pvp_rank_history) + 1
                  /\ SubSeq(pvp_rank_history', 1, Len(pvp_rank_history)) = pvp_rank_history
                  /\ pvp_rank_history'[Len(pvp_rank_history')] =
                        [player_id |-> returned'.player_id, old_rank |-> old, new_rank |-> new,
                         old_rating |-> returned'.old_rating,
                         new_rating |-> returned'.new_rating,
                         change_type |-> returned'.value.change_type]]_vars

\* a rating that fell from the silver threshold to one below it was a demotion
C15_Witness ==
    /\ returned.op = "check_rank_change"
    /\ returned.old_rating = 1200
    /\ returned.new_rating = 1199
    /\ returned.value # None
    /\ returned.value.change_type = "demote"
    /\ Len(pvp_rank_history) = 1

(***************************************************************************)
(* Properties of the matchmaking queue                                     *)
(***************************************************************************)
\* the queue entries of a player before this step
EntriesOf(p) == {row \in pvp_queue : row.player_id = p}

\* C16: the queue never holds two entries of one player, and join_queue for a
\* player who is queued returns failure and leaves the queue as it was.
C16_OneEntryPerPlayer ==
    /\ [](\A p \in PlayerIds : Cardinality(EntriesOf(p)) <= 1)
    /\ [][(returned'.op = "join_queue" /\ EntriesOf(returned'.player_id) # {}) =>
             /\ returned'.value.success = FALSE
             /\ pvp_queue' = pvp_queue]_vars

\* a player who joined at an earlier second was refused a second entry
C16_Witness ==
    /\ returned.op = "join_queue"
    /\ returned.value.success = FALSE
    /\ \E row \in EntriesOf(returned.player_id) : row.queue_time < now

\* find_match returned a match in this step, with a human or with a bot
Matched == returned'.op = "find_match" /\ returned'.value # None

\* C17 as stated: a MatchResult never pairs a player with themselves, and
\* after a match between two humans neither of them has a queue entry.
C17_NoSelfMatch ==
    (returned.op = "find_match" /\ returned.value # None) =>
        /\ returned.value.player2_id # returned.value.player1_id
        /\ ~returned.value.is_bot =>
              /\ EntriesOf(returned.value.player1_id) = {}
              /\ EntriesOf(returned.value.player2_id) = {}

\* C18: the opponent of a match between two humans is within the caller's
\* radius min(200 + floor(wait / 10) * 50, 500), no other waiting player is
\* closer to the caller, and the rating difference is at most 500.
C18_OpponentWithinRadius ==
    [][(Matched /\ ~returned'.value.is_bot) =>
          \E me \in EntriesOf(returned'.value.player1_id),
             opponent \in EntriesOf(returned'.value.player2_id) :
             LET wait   == now - me.queue_time
                 radius == IF 200 + (wait \div 10) * 50 < 500
                           THEN 200 + (wait \div 10) * 50 ELSE 500
                 diff   == Abs(opponent.rating - me.rating)
             IN  /\ diff <= radius
                 /\ \A other \in pvp_queue :
                       (other.player_id # me.player_id /\ other.status = "waiting") =>
                           Abs(other.rating - me.rating) >= diff
                 /\ returned'.value.rating_diff = diff
                 /\ returned'.value.rating_diff <= 500]_vars

\* two humans 301 apart were matched, which takes a widened radius
C18_Witness ==
    /\ returned.op = "find_match"
    /\ returned.value # None
    /\ ~returned.value.is_bot
    /\ returned.value.rating_diff = 301
    /\ returned.value.wait_time >= 30

\* what C19 says of every match with a bot but for the bot chosen
BotFallback(me) ==
    LET wait   == now - me.queue_time
        radius == IF 200 + (wait \div 10) * 50 < 500
                  THEN 200 + (wait \div 10) * 50 ELSE 500
    IN  /\ \A other \in pvp_queue :
              (other.player_id # me.player_id /\ other.status = "waiting") =>
                  Abs(other.rating - me.rating) > radius
        /\ wait >= 30
        /\ returned'.value.is_bot = TRUE
        /\ \A row \in pvp_queue' : row.player_id # me.player_id
        /\ pvp_queue' \subseteq pvp_queue

\* player2 of the match is an active bot and no active bot is closer to r
ClosestActiveBot(r) ==
    \E bot \in pvp_bots :
       /\ bot.active = 1
       /\ bot.bot_id = returned'.value.player2_id
       /\ returned'.value.rating_diff = Abs(bot.rating - r)
       /\ \A b \in pvp_bots : b.active = 1 => Abs(bot.rating - r) <= Abs(b.rating - r)

\* C19 as stated: a bot match is returned only when no waiting human is within
\* the radius and the wait is at least 30 s, its player2 is the closest-rated
\* active bot, the caller leaves the queue and no queue entry is created.
C19_ClosestActiveBot ==
    [][(Matched /\ returned'.value.is_bot) =>
          \E me \in EntriesOf(returned'.value.player1_id) :
             BotFallback(me) /\ ClosestActiveBot(me.rating)]_vars

\* C19, amended: as stated, except that without an active bot player2 is the
\* default bot 9001 rated 1200.
C19_ClosestActiveOrDefaultBot ==
    [][(Matched /\ returned'.value.is_bot) =>
          \E me \in EntriesOf(returned'.value.player1_id) :
             /\ BotFallback(me)
             /\ IF \E bot \in pvp_bots : bot.active = 1
                THEN ClosestActiveBot(me.rating)
                ELSE /\ returned'.value.player2_id = 9001
                     /\ returned'.value.rating_diff = Abs(1200 - me.rating)]_vars

\* the player rated 1400 got the active bot rated 1550, not the closer
\* inactive bot rated 1500 nor the active bot rated 1200
C19_Witness ==
    /\ returned.op = "find_match"
    /\ returned.value # None
    /\ returned.value.is_bot
    /\ returned.value.player1_id = 1002
    /\ returned.value.player2_id = 9002
    /\ returned.value.rating_diff = 150
    /\ pvp_bots # {}

\* C20 as stated: find_match for a player without a queue entry returns
\* something else than the None of "no match yet".
C20_MissingEntryIsError ==
    [][(returned'.op = "find_match" /\ EntriesOf(returned'.player_id) = {}) =>
          returned'.value # None]_vars

(***************************************************************************)
(* Properties of the seasons                                               *)
(***************************************************************************)
\* the rows of pvp_seasons with status 'active'
ActiveSeasons == {i \in DOMAIN pvp_seasons : pvp_seasons[i].status = "active"}

\* C21: at most one season is active; start_season ends every active season
\* and inserts the new one as active; an ended season is never active again.
C21_OneActiveSeason ==
    /\ [](Cardinality(ActiveSeasons) <= 1)
    /\ [][(returned'.op = "start_season" /\ Len(pvp_seasons') = Len(pvp_seasons) + 1) =>
             /\ \A i \in DOMAIN pvp_seasons :
                   /\ pvp_seasons'[i].status = "ended"
                   /\ pvp_seasons'[i].season_id = pvp_seasons[i].season_id
             /\ pvp_seasons'[Len(pvp_seasons')].status = "active"]_vars
    /\ [][\A i \in DOMAIN pvp_seasons :
             pvp_seasons[i].status = "ended" =>
                /\ i \in DOMAIN pvp_seasons'
                /\ pvp_seasons'[i].status = "ended"]_vars

\* a second season was started while the first was active
C21_Witness ==
    /\ Len(pvp_seasons) = 2
    /\ pvp_seasons[1].season_id = "S1"
    /\ pvp_seasons[1].status = "ended"
    /\ pvp_seasons[2].season_id = "S2"
    /\ pvp_seasons[2].status = "active"
    /\ returned.op = "start_season"

\* the record a claim_rewards or get_season_rewards call of this step is about
Claimed == pvp_player_season[<<returned'.player_id, returned'.season_id>>]

\* C22: claim_rewards on a record with an unclaimed reward returns true and
\* sets rewards_claimed; on a claimed record it returns false and changes
\* nothing; get_season_rewards returns no reward for a claimed record.
C22_ClaimOnce ==
    [][/\ (returned'.op = "claim_rewards" /\ Claimed # NoRow) =>
             IF Claimed.rewards_claimed = 0
             THEN /\ returned'.value = TRUE
                  /\ pvp_player_season' =
                        [pvp_player_season EXCEPT
                            ![<<returned'.player_id, returned'.season_id>>].rewards_claimed = 1]
             ELSE /\ returned'.value = FALSE
                  /\ pvp_player_season' = pvp_player_season
                  /\ pvp_seasons' = pvp_seasons
                  /\ pvp_ratings' = pvp_ratings
       /\ (returned'.op = "get_season_rewards" /\ Claimed # NoRow
              /\ Claimed.rewards_claimed = 1) =>
             /\ returned'.value = None
             /\ pvp_player_season' = pvp_player_season]_vars

\* a second claim for the record of player 1001 in season S1 was refused
C22_Witness ==
    /\ returned.op = "claim_rewards"
    /\ returned.player_id = 1001
    /\ returned.season_id = "S1"
    /\ returned.value = FALSE
    /\ claims[<<1001, "S1">>] = 1
    /\ pvp_player_season[<<1001, "S1">>].rewards_claimed = 1

\* C26 as stated: claim_rewards succeeds at most once for each player and
\* season, whatever end_season and claim_rewards calls are made.
C26_ClaimedAtMostOnce == \A key \in DOMAIN claims : claims[key] <= 1

(***************************************************************************)
(* Properties of the soft reset                                            *)
(***************************************************************************)
\* n is d * pct[1] / pct[2] as an integer: the fraction is dropped, and where
\* the product is a whole number the binary64 product can lie just below it
AsInteger(n, d, pct) ==
    /\ n * d >= 0
    /\ \/ Abs(n) = (Abs(d) * pct[1]) \div pct[2]
       \/ /\ (Abs(d) * pct[1]) % pct[2] = 0
          /\ Abs(n) = (Abs(d) * pct[1]) \div pct[2] - 1

\* C23: soft_reset_ratings(pct) sets every rating to 1200 + (old - 1200) * pct
\* as an integer and every streak to 0 and leaves wins and losses; for
\* 0 <= pct <= 1 no rating ends farther from 1200 or on its other side.
C23_SoftReset ==
    [][returned'.op = "soft_reset_ratings" =>
          \E pct \in {q \in ResetPcts : Dec(q[1], q[2]) = returned'.reset_pct} :
          \A p \in PlayerIds :
             IF pvp_ratings[p] = NoRow THEN pvp_ratings'[p] = NoRow
             ELSE /\ AsInteger(pvp_ratings'[p].rating - 1200, pvp_ratings[p].rating - 1200, pct)
                  /\ pvp_ratings'[p].streak = 0
                  /\ pvp_ratings'[p].wins = pvp_ratings[p].wins
                  /\ pvp_ratings'[p].losses = pvp_ratings[p].losses
                  /\ pct[1] <= pct[2] =>
                        /\ Abs(pvp_ratings'[p].rating - 1200) <= Abs(pvp_ratings[p].rating - 1200)
                        /\ (pvp_ratings'[p].rating - 1200) * (pvp_ratings[p].rating - 1200) >= 0]_vars

\* the default reset took 1500 to 1350 and 1100 to 1150
C23_Witness ==
    /\ returned.op = "soft_reset_ratings"
    /\ returned.reset_pct = Dec(1, 2)
    /\ resets = 1
    /\ pvp_ratings[1001].rating = 1350
    /\ pvp_ratings[1002].rating = 1150
    /\ pvp_ratings[1001].streak = 0
    /\ pvp_ratings[1002].streak = 0

(***************************************************************************)
(* Properties of matchmaking under interleaving and polling                *)
(***************************************************************************)
\* the queued players of a row of pvp_matchmaking_log
QueuedPlayers(row) ==
    {row.player1_id} \cup (IF row.is_bot_match THEN {} ELSE {row.player2_id})

\* C24 as stated: with interleaved find_match calls no queued player is in
\* two returned matches.
C24_NoDoubleMatch ==
    \A i, j \in DOMAIN pvp_matchmaking_log :
       i < j => QueuedPlayers(pvp_matchmaking_log[i]) \cap QueuedPlayers(pvp_matchmaking_log[j]) = {}

C27_BothRankChangesRecorded ==
    [][(Submitted /\ Battle.player_id < 9000 /\ Battle.opponent_id < 9000) =>
          \A p \in {Battle.player_id, Battle.opponent_id} :
             (TierOf(RatingOf(p)) # TierOf(pvp_ratings'[p].rating)) <=>
                \E i \in (Len(pvp_rank_history) + 1)..Len(pvp_rank_history') :
                   pvp_rank_history'[i].player_id = p]_vars

(***************************************************************************)
(* Properties of a poll that finds no match                                *)
(***************************************************************************)
\* min(200 + floor(wait / 10) * 50, 500)
Radius(wait) == IF 200 + (wait \div 10) * 50 < 500 THEN 200 + (wait \div 10) * 50 ELSE 500

\* C28: find_match without a waiting human within the radius and with a wait
\* below 30 s returns no match, stores the current radius in the caller's
\* entry and changes nothing else; the stored radius of an entry never
\* decreases and never exceeds 500.
C28_NoMatchYet ==
    /\ [][returned'.op = "find_match" =>
             \A me \in EntriesOf(returned'.player_id) :
                (/\ now - me.queue_time < 30
                 /\ \A other \in pvp_queue :
                       (other.player_id # me.player_id /\ other.status = "waiting") =>
                           Abs(other.rating - me.rating) > Radius(now - me.queue_time)) =>
                   /\ returned'.value = None
                   /\ pvp_queue' = (pvp_queue \ {me})
                                      \cup {[me EXCEPT !.elo_range = Radius(now - me.queue_time)]}
                   /\ pvp_matchmaking_log' = pvp_matchmaking_log]_vars
    /\ [][\A before \in pvp_queue, after \in pvp_queue' :
             (after.player_id = before.player_id /\ after.queue_time = before.queue_time) =>
                after.elo_range >= before.elo_range]_vars
    /\ [](\A row \in pvp_queue : row.elo_range <= 500)

\* a poll after 10 s of waiting found nobody and stored the radius 250
C28_Witness ==
    /\ returned.op = "find_match"
    /\ returned.value = None
    /\ \E me \in EntriesOf(returned.player_id) :
          /\ now - me.queue_time >= 10
          /\ me.elo_range = 250

(***************************************************************************)
(* Properties of the stability and of the weak and strong areas            *)
(***************************************************************************)
\* the last ten entries of a history
LastTen(recent) ==
    IF Len(recent) <= 10 THEN recent ELSE SubSeq(recent, Len(recent) - 9, Len(recent))

\* the stability of the profile is 1 - min(4 * variance, 1) for the
\* population variance of the last ten outcomes: with k correct of n it is
\* ((n - 2k) / n) ^ 2, here compared after scaling by n ^ 2
StabilityOfLastTen(profile) ==
    \E outcomes \in {LastTen(profile.recent_accuracy)} :
    \E n \in {Len(outcomes)}, k \in {Cardinality({i \in DOMAIN outcomes : outcomes[i] = 1})} :
    \E scaled \in {FSub(FMul(profile.stability, FromInt(n * n)), FromInt((n - 2 * k) * (n - 2 * k)))} :
       /\ FLess(scaled, Dec(1, 30000))
       /\ FLess(Dec(-1, 30000), scaled)

\* C29 as stated: after every record_answer call the stability is
\* 1 - min(4 * variance, 1) for the variance of the last 10 outcomes.
C29_StabilityAfterEveryAnswer ==
    [][Answered => StabilityOfLastTen(profiles')]_vars

\* C29, amended: that holds after every call that leaves 5 outcomes or more;
\* a call that leaves fewer leaves the stability as it was.
C29_StabilityFromFiveOutcomes ==
    [][Answered =>
          IF Len(profiles'.recent_accuracy) >= 5
          THEN StabilityOfLastTen(profiles')
          ELSE profiles'.stability = get_profile.stability]_vars

\* four correct answers and a wrong one: variance 0.16, stability 0.36
C29_Witness ==
    /\ profiles # NoProfile
    /\ Len(adaptive_learning_log) = 1
    /\ profiles.recent_accuracy = <<1, 1, 1, 1, 0>>
    /\ FLess(Dec(35, 100), profiles.stability)
    /\ FLess(profiles.stability, Dec(37, 100))

\* C30: after every record_answer call weak_areas is the set of domains with
\* ability < 0.5 and strong_areas the set with ability > 0.8; they are disjoint
\* and a domain from 0.5 to 0.8 is in neither, with or without a domain id.
C30_WeakAndStrongAreas ==
    profiles # NoProfile =>
        /\ profiles.weak_areas =
              {d \in DOMAIN profiles.domain_abilities :
                  FLess(profiles.domain_abilities[d], Dec(1, 2))}
        /\ profiles.strong_areas =
              {d \in DOMAIN profiles.domain_abilities :
                  FLess(Dec(4, 5), profiles.domain_abilities[d])}
        /\ profiles.weak_areas \cap profiles.strong_areas = {}
        /\ \A d \in DOMAIN profiles.domain_abilities :
              (/\ ~FLess(profiles.domain_abilities[d], Dec(1, 2))
               /\ ~FLess(Dec(4, 5), profiles.domain_abilities[d])) =>
                  d \notin profiles.weak_areas \cup profiles.strong_areas
        /\ adaptive_learner_profiles.weak_areas = profiles.weak_areas
        /\ adaptive_learner_profiles.strong_areas = profiles.strong_areas

\* an answer without a domain id on a profile with a strong domain and a
\* domain between the thresholds
C30_Witness ==
    /\ profiles # NoProfile
    /\ Len(adaptive_learning_log) >= 1
    /\ LastAnswer.domain_id = ""
    /\ profiles.strong_areas = {"d2"}
    /\ profiles.weak_areas = {}
    /\ DOMAIN profiles.domain_abilities = {"d1", "d2"}
====
